---- MODULE Spec2Model ----
(***************************************************************************)
(* Event log of jupyter-collaboration-mcp: TornadoEventStore               *)
(* (tornado_event_store.py), built without a lock, and InMemoryEventStore  *)
(* (event_store.py), which runs the same statements inside one             *)
(* asyncio.Lock (the variable locking tells which of the two was built),   *)
(* so that nothing else runs on it while one of its replays is suspended.  *)
(*                                                                         *)
(* Session registry and SSE transport: TornadoSessionManager               *)
(* (tornado_session_manager.py) over a TornadoEventStore, and the          *)
(* TornadoSSEHandler objects (tornado_sse_handler.py) it creates.  A       *)
(* tools/call POST suspends in fastmcp.call_tool; the variable calls holds *)
(* the suspended requests.  ResourceAuthorizer (auth.py) is a pure check.  *)
(*                                                                         *)
(* AuthManager.check_rate_limit (auth.py) keeps rate_limits against the    *)
(* wall clock utcnow.  The tool handlers (handlers.py) validate their      *)
(* arguments and forward to RTCAdapter (rtc_adapter.py), whose documents   *)
(* and fork registry are the variables documents and document_forks; the   *)
(* collaboration engine behind _get_or_create_room is an input.            *)
(*                                                                         *)
(* uuid4() is a fresh value: event ids are drawn from a counter.  The      *)
(* IOLoop clock is the variable now, advanced by Tick.                     *)
(***************************************************************************)
EXTENDS Integers, Sequences, FiniteSets, TLC

\* ---- bounds of the model -------------------------------------------------
Capacity == 1            \* max_events_per_stream the store is built with
ReplayCapacity == 3      \* the same, for the store replays and reads run on
StreamCap == 2           \* max_streams the store is built with
MaxEvents == 2           \* store_event calls in a run
MaxReplayEvents == 4     \* the same, in a run with replays
MaxTime == 1             \* last reading of the clock
MaxLimit == 3            \* largest limit passed to get_stream_events
MaxHandlers == 2         \* TornadoSSEHandler objects created in a run
MaxChannels == 1         \* the same, in a run with every kind of request
MaxFrames == 3           \* frames on a connection a timer still adds to
MaxSessionEvents == 1    \* POST requests in a run
MaxResumeEvents == 3     \* events stored in a run with resuming GETs
MaxPending == 1          \* tools/call requests suspended at one time
RateLimitRequests == 2   \* config.rate_limit_requests
RateLimitWindow == 2     \* config.rate_limit_window, in ticks of the clock
MaxText == 3             \* length of the text a document starts with
MaxForks == 2            \* forks created in a run
MaxForwarded == 1        \* tool calls forwarded to the adapter in a run
MaxClock == 3            \* last reading of datetime.utcnow()

StreamIds == {"s1", "s2", "s3"}
ReplayStreams == {"s1", "s2"}
Messages == {"a", "b"}
Times == 0..MaxTime

\* session ids a client makes up, and the values uuid4() returns, in order
ClientSessionIds == {"s1"}
Uuids == <<"u1">>

EmptyMap == [x \in {} |-> 0]

\* metadata dictionaries a caller passes to create_stream /
\* update_stream_metadata
MetadataInputs == { EmptyMap }

VARIABLES
    max_events_per_stream,  \* self.max_events_per_stream
    max_streams,      \* self.max_streams
    locking,          \* self._lock is an asyncio.Lock (it is None otherwise)
    streams,          \* self.streams: stream id -> deque of entries
    stream_keys,      \* insertion order of the keys of self.streams
    event_index,      \* self.event_index: event id -> entry
    stream_metadata,  \* self.stream_metadata: stream id -> metadata dict
    now,              \* IOLoop.current().time()
    issued,           \* history: stream and message of each store_event, by id
    replay,           \* the frame of a running replay_events_after call
    emitted,          \* history: event ids passed to send_callback so far
    lastOp,           \* the call that has just returned, and its result
    sessions,         \* self._sessions: session id -> session dict
    sse_handlers,     \* self._sse_handlers: session id -> handler object
    handlers,         \* the TornadoSSEHandler objects created so far
    scheduled,        \* handlers whose start_heartbeat_loop is queued
    minted,           \* number of session ids generated so far
    calls,            \* tools/call requests suspended in fastmcp.call_tool
    rate_limits,      \* AuthManager._rate_limits: client id -> timestamps
    utcnow,           \* datetime.utcnow().timestamp()
    accepted,         \* history: client and time of each accepted call
    adapter_calls,    \* history: number of calls of rtc_adapter methods
    documents,        \* the engine's documents: path -> room._document.source
    document_forks,   \* RTCAdapter._document_forks: fork id -> fork record
    forks_minted,     \* number of fork ids generated so far
    event_logger      \* the adapter has the attribute event_logger

vars == <<max_events_per_stream, max_streams, locking, streams, stream_keys,
          event_index, stream_metadata, now, issued, replay, emitted, lastOp,
          sessions, sse_handlers, handlers, scheduled, minted, calls,
          rate_limits, utcnow, accepted, adapter_calls, documents,
          document_forks, forks_minted, event_logger>>

\* the state of AuthManager
auth == <<rate_limits, utcnow, accepted>>

\* the objects of the server beside the event store and the session manager
\* the state of RTCAdapter and of the collaboration engine behind it
rtc == <<documents, document_forks, forks_minted, event_logger>>

services == <<auth, adapter_calls, rtc>>

manager == <<sessions, sse_handlers, handlers, scheduled, minted, calls>>

config == <<max_events_per_stream, max_streams, locking>>

store == <<streams, stream_keys, event_index, stream_metadata>>

\* ---- helpers -------------------------------------------------------------
None == <<>>
Some(x) == <<x>>

Range(s) == { s[i] : i \in 1..Len(s) }

Remove(f, k) == [x \in (DOMAIN f) \ {k} |-> f[x]]

Put(f, k, v) == [x \in (DOMAIN f) \cup {k} |-> IF x = k THEN v ELSE f[x]]

RemoveAll(f, ks) == [x \in (DOMAIN f) \ ks |-> f[x]]

WithoutKey(s, k) == SelectSeq(s, LAMBDA x : x # k)

TornadoEventEntry(eid, sid, msg, ts) ==
    [event_id |-> eid, stream_id |-> sid, message |-> msg, timestamp |-> ts]

TornadoEventMessage(entry) ==
    [event_id |-> entry.event_id, stream_id |-> entry.stream_id,
     message |-> entry.message]

DequeAppendUnbounded(dq, entry) == Append(dq, entry)

\* deque(maxlen = max_events_per_stream).append
DequeAppend(dq, entry) ==
    IF Len(dq) = max_events_per_stream
    THEN Tail(dq) \o <<entry>>
    ELSE Append(dq, entry)

NewestStreamId(keys, meta) ==
    LET maximal(i) == \A j \in 1..Len(keys) :
                          meta[keys[i]].last_activity
                            >= meta[keys[j]].last_activity
        first == CHOOSE i \in 1..Len(keys) :
                     /\ maximal(i)
                     /\ \A j \in 1..(i - 1) : ~maximal(j)
    IN keys[first]

\* min(self.streams.keys(), key = last_activity): the first key, in
\* dictionary order, whose last_activity is minimal
OldestStreamId(keys, meta) ==
    LET minimal(i) == \A j \in 1..Len(keys) :
                          meta[keys[i]].last_activity
                            <= meta[keys[j]].last_activity
        first == CHOOSE i \in 1..Len(keys) :
                     /\ minimal(i)
                     /\ \A j \in 1..(i - 1) : ~minimal(j)
    IN keys[first]

\* dict.update(metadata) on a metadata dict
MergeMetadata(base, metadata) ==
    [k \in DOMAIN base |-> IF k \in DOMAIN metadata THEN metadata[k]
                                                    ELSE base[k]]

\* _remove_stream without the loop of lines 250-251
RemoveStreamStoreKeepIndex(st, ks, ix, md, sid) ==
    IF sid \notin DOMAIN st
    THEN <<st, ks, ix, md>>
    ELSE <<Remove(st, sid), WithoutKey(ks, sid), ix, Remove(md, sid)>>

\* _remove_stream: the store after the call, as <<streams, keys, index, meta>>
RemoveStreamStore(st, ks, ix, md, sid) ==
    IF sid \notin DOMAIN st
    THEN <<st, ks, ix, md>>
    ELSE <<Remove(st, sid),
           WithoutKey(ks, sid),
           RemoveAll(ix, { st[sid][i].event_id : i \in 1..Len(st[sid]) }),
           Remove(md, sid)>>

RECURSIVE RemoveStreamsStore(_, _, _, _, _)
RemoveStreamsStore(st, ks, ix, md, sids) ==
    IF sids = {}
    THEN <<st, ks, ix, md>>
    ELSE LET sid == CHOOSE s \in sids : TRUE
             r == RemoveStreamStore(st, ks, ix, md, sid)
         IN RemoveStreamsStore(r[1], r[2], r[3], r[4], sids \ {sid})

\* line 68: must a stream be evicted before stream_id is admitted
NeedsStreamEviction(st, sid) ==
    Cardinality(DOMAIN st) >= max_streams /\ sid \notin DOMAIN st

IndexAfterCapacityNoPop(ix, dq) == ix

\* lines 96-99: the index once the record a full deque is about to drop is
\* popped from it
IndexAfterCapacity(ix, dq) ==
    IF Len(dq) = max_events_per_stream
    THEN Remove(ix, dq[1].event_id)
    ELSE ix

MetadataAfterInsertNoCount(m, ts) == [m EXCEPT !.last_activity = ts]

\* lines 105-108: metadata of the stream after an insertion at time ts
MetadataAfterInsert(m, ts) ==
    [m EXCEPT !.last_activity = ts, !.event_count = @ + 1]

\* store_event: the store after the call, as <<streams, keys, index, meta>>
StoreEventStore(st, ks, ix, md, sid, entry) ==
    LET r == IF NeedsStreamEviction(st, sid)
             THEN RemoveStreamStore(st, ks, ix, md, OldestStreamId(ks, md))
             ELSE <<st, ks, ix, md>>
        fresh == sid \notin DOMAIN r[1]
        st1 == IF fresh THEN Put(r[1], sid, <<>>) ELSE r[1]
        ks1 == IF fresh THEN Append(r[2], sid) ELSE r[2]
        md1 == IF fresh
               THEN Put(r[4], sid, [created_at |-> entry.timestamp,
                                    last_activity |-> entry.timestamp,
                                    event_count |-> 0])
               ELSE r[4]
        ix1 == IndexAfterCapacity(r[3], st1[sid])
    IN <<[st1 EXCEPT ![sid] = DequeAppend(@, entry)],
         ks1,
         Put(ix1, entry.event_id, entry),
         [md1 EXCEPT ![sid] = MetadataAfterInsert(@, entry.timestamp)]>>

\* get_event
GetEventResult(ix, eid) ==
    IF eid \in DOMAIN ix THEN Some(TornadoEventMessage(ix[eid])) ELSE None

\* events[-limit:] of a Python list
LastSlice(events, limit) ==
    IF limit = 0
    THEN events
    ELSE SubSeq(events,
                IF Len(events) > limit THEN Len(events) - limit + 1 ELSE 1,
                Len(events))

\* get_stream_events; limit is None or Some(n)
GetStreamEventsResult(st, sid, limit) ==
    IF sid \notin DOMAIN st
    THEN <<>>
    ELSE LET events == [i \in 1..Len(st[sid]) |->
                           TornadoEventMessage(st[sid][i])]
         IN IF limit # None THEN LastSlice(events, limit[1]) ELSE events

\* get_stats
GetStatsResult(st, ix) ==
    [stream_count |-> Cardinality(DOMAIN st),
     total_events |-> LET RECURSIVE Sum(_)
                          Sum(S) == IF S = {} THEN 0
                                    ELSE LET s == CHOOSE x \in S : TRUE
                                         IN Len(st[s]) + Sum(S \ {s})
                      IN Sum(DOMAIN st),
     max_events_per_stream |-> max_events_per_stream,
     max_streams |-> max_streams,
     event_index_size |-> Cardinality(DOMAIN ix)]

\* lines 187-189: zero-based position of the cursor in the deque, -1 when
\* the loop ends with found_last_event still False
CursorPosition(dq, last_event_id) ==
    IF \E p \in 1..Len(dq) : dq[p].event_id = last_event_id
    THEN (CHOOSE p \in 1..Len(dq) :
              /\ dq[p].event_id = last_event_id
              /\ \A q \in 1..(p - 1) : dq[q].event_id # last_event_id) - 1
    ELSE -1

\* range(i, len(stream)) in place of range(i + 1, len(stream))
ReplayPlanFromCursor(ix, st, last_event_id) ==
    IF /\ last_event_id \in DOMAIN ix
       /\ ix[last_event_id].stream_id \in DOMAIN st
       /\ CursorPosition(st[ix[last_event_id].stream_id], last_event_id) # -1
    THEN LET sid == ix[last_event_id].stream_id
         IN [outcome |-> "run", stream_id |-> sid,
             i |-> CursorPosition(st[sid], last_event_id) - 1,
             n |-> Len(st[sid])]
    ELSE [outcome |-> "none", stream_id |-> "s1", i |-> 0, n |-> 0]

\* the return of line 175 left out: last_event.stream_id raises on None
ReplayPlanNoReturn(ix, st, last_event_id) ==
    IF last_event_id \notin DOMAIN ix
    THEN [outcome |-> "raise", stream_id |-> "s1", i |-> 0, n |-> 0]
    ELSE LET sid == ix[last_event_id].stream_id
             pos == IF sid \in DOMAIN st
                    THEN CursorPosition(st[sid], last_event_id) ELSE -1
         IN IF pos = -1
            THEN [outcome |-> "none", stream_id |-> "s1", i |-> 0, n |-> 0]
            ELSE [outcome |-> "run", stream_id |-> sid, i |-> pos,
                  n |-> Len(st[sid])]

\* lines 172-191: what replay_events_after decides before its first await:
\* "none" (return None), "raise", or "run" over range(i + 1, n) of the deque
\* of stream_id
ReplayPlan(ix, st, last_event_id) ==
    LET nothing == [outcome |-> "none", stream_id |-> "s1", i |-> 0, n |-> 0]
    IN IF last_event_id \notin DOMAIN ix
       THEN nothing
       ELSE LET sid == ix[last_event_id].stream_id
            IN IF sid \notin DOMAIN st
               THEN nothing
               ELSE LET pos == CursorPosition(st[sid], last_event_id)
                    IN IF pos = -1
                       THEN nothing
                       ELSE [outcome |-> "run", stream_id |-> sid,
                             i |-> pos, n |-> Len(st[sid])]

\* the deque the running replay iterates: the live deque of its stream while
\* the stream it started on is still registered, else the detached object
ReplayDeque ==
    IF replay.attached THEN streams[replay.stream_id] ELSE replay.deque

IdleReplay ==
    [pc |-> "idle", last_event_id |-> 0, stream_id |-> "s1",
     attached |-> FALSE, deque |-> <<>>, i |-> 0, j |-> 0, n |-> 0,
     last_sent_id |-> None, interleaved |-> FALSE, snapshot |-> <<>>]

NoCall == [op |-> "none"]

\* async with self._lock: the lock is taken by a call that has not returned,
\* and the only call that suspends while holding it is a replay
LockHeld == locking /\ replay.pc = "awaiting"

\* what replay_events_after returns once it has emitted up to last_sent_id:
\* InMemoryEventStore.replay_events_after has no return statement
ReplayReturnValue(last_sent_id) == IF locking THEN None ELSE last_sent_id

\* ---- initial state -------------------------------------------------------
ConstructedServer(events_per_stream, stream_cap, with_lock) ==
    /\ max_events_per_stream = events_per_stream
    /\ max_streams = stream_cap
    /\ locking = with_lock
    /\ streams = EmptyMap
    /\ stream_keys = <<>>
    /\ event_index = EmptyMap
    /\ stream_metadata = EmptyMap
    /\ now = 0
    /\ issued = <<>>
    /\ replay = IdleReplay
    /\ emitted = <<>>
    /\ lastOp = NoCall
    /\ sessions = EmptyMap
    /\ sse_handlers = EmptyMap
    /\ handlers = <<>>
    /\ scheduled = {}
    /\ minted = 0
    /\ calls = <<>>
    /\ rate_limits = EmptyMap
    /\ utcnow = 0
    /\ accepted = <<>>
    /\ adapter_calls = 0

\* the objects of the server after construction; RTCAdapter.__init__ sets no
\* event_logger, and no document is open
Constructed(events_per_stream, stream_cap, with_lock) ==
    /\ ConstructedServer(events_per_stream, stream_cap, with_lock)
    /\ documents = EmptyMap
    /\ document_forks = EmptyMap
    /\ forks_minted = 0
    /\ event_logger = FALSE

Init == Constructed(Capacity, StreamCap, FALSE)

InitReplay == Constructed(ReplayCapacity, StreamCap, FALSE)

InitInMemory == Constructed(ReplayCapacity, StreamCap, TRUE)

\* ---- actions ------------------------------------------------------------
\* Every public call but replay_events_after runs without suspending (the
\* only await in them is of _remove_stream, which never yields), so each is
\* one step.  The step leaves in lastOp what the call returned; the caller
\* takes the result in the step Return, before anything else runs.

\* what a mutation of the store that leaves st2 as self.streams does to a
\* replay suspended in its callback: the replay keeps its reference to the
\* deque object when the stream is unregistered
Interfered(st2) ==
    IF replay.pc = "awaiting"
    THEN [replay EXCEPT
            !.interleaved = TRUE,
            !.attached = replay.attached /\ replay.stream_id \in DOMAIN st2,
            !.deque = IF replay.attached /\ replay.stream_id \notin DOMAIN st2
                      THEN streams[replay.stream_id]
                      ELSE @]
    ELSE replay

SetStore(r) ==
    /\ streams' = r[1]
    /\ stream_keys' = r[2]
    /\ event_index' = r[3]
    /\ stream_metadata' = r[4]
    /\ replay' = Interfered(r[1])

Tick ==
    /\ lastOp = NoCall
    /\ now < MaxTime
    /\ now' = now + 1
    /\ UNCHANGED <<config, services, manager, store, issued, replay, emitted, lastOp>>

Return ==
    /\ lastOp # NoCall
    /\ lastOp' = NoCall
    /\ emitted' = IF lastOp.op = "replay_events_after" THEN <<>> ELSE emitted
    /\ UNCHANGED <<config, services, manager, store, now, issued, replay>>

StoreEvent(sid, msg) ==
    /\ lastOp = NoCall
    /\ ~LockHeld
    /\ LET entry == TornadoEventEntry(Len(issued) + 1, sid, msg, now)
       IN /\ SetStore(StoreEventStore(streams, stream_keys, event_index,
                                      stream_metadata, sid, entry))
          /\ issued' = Append(issued, [stream_id |-> sid, message |-> msg])
          /\ lastOp' = [op |-> "store_event", stream_id |-> sid,
                        ret |-> entry.event_id,
                        evicted |-> IF NeedsStreamEviction(streams, sid)
                                    THEN Some(OldestStreamId(stream_keys,
                                                            stream_metadata))
                                    ELSE None]
    /\ UNCHANGED <<config, services, manager, now, emitted>>

GetEvent(eid) ==
    /\ lastOp = NoCall
    /\ ~LockHeld
    /\ lastOp' = [op |-> "get_event", event_id |-> eid,
                  ret |-> GetEventResult(event_index, eid)]
    /\ UNCHANGED <<config, services, manager, store, now, issued, replay, emitted>>

GetStreamEvents(sid, limit) ==
    /\ lastOp = NoCall
    /\ ~LockHeld
    /\ lastOp' = [op |-> "get_stream_events", stream_id |-> sid,
                  limit |-> limit,
                  ret |-> GetStreamEventsResult(streams, sid, limit)]
    /\ UNCHANGED <<config, services, manager, store, now, issued, replay, emitted>>

GetStreamMetadata(sid) ==
    /\ lastOp = NoCall
    /\ ~LockHeld
    /\ lastOp' = [op |-> "get_stream_metadata", stream_id |-> sid,
                  ret |-> IF sid \in DOMAIN stream_metadata
                          THEN Some(stream_metadata[sid]) ELSE None]
    /\ UNCHANGED <<config, services, manager, store, now, issued, replay, emitted>>

ListStreams ==
    /\ lastOp = NoCall
    /\ ~LockHeld
    /\ lastOp' = [op |-> "list_streams", ret |-> stream_keys]
    /\ UNCHANGED <<config, services, manager, store, now, issued, replay, emitted>>

GetStats ==
    /\ lastOp = NoCall
    /\ ~LockHeld
    /\ lastOp' = [op |-> "get_stats",
                  ret |-> GetStatsResult(streams, event_index)]
    /\ UNCHANGED <<config, services, manager, store, now, issued, replay, emitted>>

RemoveStream(sid) ==
    /\ lastOp = NoCall
    /\ ~LockHeld
    /\ SetStore(RemoveStreamStore(streams, stream_keys, event_index,
                                  stream_metadata, sid))
    /\ lastOp' = [op |-> "remove_stream", stream_id |-> sid,
                  ret |-> sid \in DOMAIN streams]
    /\ UNCHANGED <<config, services, manager, now, issued, emitted>>

\* >= in place of > on line 274
StreamsToRemoveInclusive(md, current_time, max_age) ==
    { sid \in DOMAIN md : current_time - md[sid].last_activity >= max_age }

\* lines 269-275: the streams prune_old_streams collects
StreamsToRemove(md, current_time, max_age) ==
    { sid \in DOMAIN md : current_time - md[sid].last_activity > max_age }

PruneOldStreams(max_age) ==
    /\ lastOp = NoCall
    /\ ~LockHeld
    /\ LET streams_to_remove == StreamsToRemove(stream_metadata, now, max_age)
       IN /\ SetStore(RemoveStreamsStore(streams, stream_keys, event_index,
                                         stream_metadata, streams_to_remove))
          /\ lastOp' = [op |-> "prune_old_streams", max_age |-> max_age,
                        ret |-> Cardinality(streams_to_remove)]
    /\ UNCHANGED <<config, services, manager, now, issued, emitted>>

StreamNeverExists(st, sid) == FALSE

\* line 319: create_stream raises ValueError for this stream id
StreamAlreadyExists(st, sid) == sid \in DOMAIN st

\* create_stream for the stream id sid (given, or the generated uuid)
CreateStreamStore(st, ks, ix, md, sid, metadata, current_time) ==
    <<Put(st, sid, <<>>),
      Append(ks, sid),
      ix,
      Put(md, sid, MergeMetadata([created_at |-> current_time,
                                  last_activity |-> current_time,
                                  event_count |-> 0], metadata))>>

CreateStream(given, sid, metadata) ==
    /\ lastOp = NoCall
    /\ ~LockHeld
    /\ given \/ sid \notin DOMAIN streams      \* a generated uuid is new
    /\ IF StreamAlreadyExists(streams, sid)
       THEN /\ lastOp' = [op |-> "create_stream", stream_id |-> sid,
                          raised |-> TRUE]
            /\ UNCHANGED <<store, replay>>
       ELSE /\ SetStore(CreateStreamStore(streams, stream_keys, event_index,
                                          stream_metadata, sid, metadata,
                                          now))
            /\ lastOp' = [op |-> "create_stream", stream_id |-> sid,
                          raised |-> FALSE]
    /\ UNCHANGED <<config, services, manager, now, issued, emitted>>

\* lines 348-349 on the metadata dict of the stream
UpdatedMetadata(m, metadata, current_time) ==
    [MergeMetadata(m, metadata) EXCEPT !.last_activity = current_time]

UpdateStreamMetadata(sid, metadata) ==
    /\ lastOp = NoCall
    /\ ~LockHeld
    /\ IF sid \notin DOMAIN stream_metadata
       THEN /\ lastOp' = [op |-> "update_stream_metadata",
                          stream_id |-> sid, ret |-> FALSE]
            /\ UNCHANGED <<store, replay>>
       ELSE /\ SetStore(<<streams, stream_keys, event_index,
                          [stream_metadata EXCEPT ![sid] =
                              UpdatedMetadata(@, metadata, now)]>>)
            /\ lastOp' = [op |-> "update_stream_metadata",
                          stream_id |-> sid, ret |-> TRUE]
    /\ UNCHANGED <<config, services, manager, now, issued, emitted>>

\* what a replay_events_after call that has returned leaves to its caller
ReplayReturned(frame, ret, raised) ==
    [op |-> "replay_events_after", last_event_id |-> frame.last_event_id,
     ret |-> ret, raised |-> raised, interleaved |-> frame.interleaved,
     snapshot |-> frame.snapshot]

\* replay_events_after up to its first await (lines 172-197)
ReplayStart(last_event_id) ==
    /\ lastOp = NoCall
    /\ ~LockHeld
    /\ replay.pc = "idle"
    /\ LET plan == ReplayPlan(event_index, streams, last_event_id)
           dq == streams[plan.stream_id]
           frame == [IdleReplay EXCEPT !.last_event_id = last_event_id]
       IN CASE plan.outcome = "run" /\ plan.i + 1 < plan.n ->
                 /\ replay' = [frame EXCEPT !.pc = "awaiting",
                                            !.stream_id = plan.stream_id,
                                            !.attached = TRUE,
                                            !.i = plan.i,
                                            !.j = plan.i + 1,
                                            !.n = plan.n,
                                            !.snapshot = dq]
                 /\ emitted' = <<dq[plan.i + 2].event_id>>
                 /\ lastOp' = lastOp
            [] plan.outcome = "run" /\ plan.i + 1 >= plan.n ->
                 /\ replay' = IdleReplay
                 /\ emitted' = <<>>
                 /\ lastOp' = ReplayReturned([frame EXCEPT !.snapshot = dq],
                                             None, FALSE)
            [] plan.outcome = "none" ->
                 /\ replay' = IdleReplay
                 /\ emitted' = <<>>
                 /\ lastOp' = ReplayReturned(frame, None, FALSE)
            [] OTHER ->
                 /\ replay' = IdleReplay
                 /\ emitted' = <<>>
                 /\ lastOp' = ReplayReturned(frame, None, TRUE)
    /\ UNCHANGED <<config, services, manager, store, now, issued>>

\* the awaited send_callback returns: lines 198, 191-197 for the next j, or
\* line 204 when range(i + 1, n) is exhausted
ReplayResume ==
    /\ lastOp = NoCall
    /\ replay.pc = "awaiting"
    /\ LET last_sent_id == Some(emitted[Len(emitted)])
           j == replay.j + 1
       IN IF j < replay.n
          THEN /\ replay' = [replay EXCEPT !.j = j,
                                           !.last_sent_id = last_sent_id]
               /\ emitted' = Append(emitted, ReplayDeque[j + 1].event_id)
               /\ lastOp' = lastOp
          ELSE /\ replay' = IdleReplay
               /\ emitted' = emitted
               /\ lastOp' = ReplayReturned(replay,
                                           ReplayReturnValue(last_sent_id),
                                           FALSE)
    /\ UNCHANGED <<config, services, manager, store, now, issued>>

\* ---- TornadoSSEHandler ---------------------------------------------------
\* A handler object is a record: closed is self._closed, heartbeat_callback
\* tells whether self._heartbeat_callback is a started PeriodicCallback,
\* written holds the frames written to its connection, finished tells whether
\* its request handler was finished (write() raises from then on), and
\* session_id is the id it was registered under.

\* the message send_event builds: optional id: line, event: line, data: line
SSEFrame(event_id, event_type, data) ==
    [id |-> event_id, event |-> Some(event_type), data |-> Some(data)]

\* the comment ": heartbeat"
HeartbeatFrame == [id |-> None, event |-> None, data |-> None]

\* values handed to send_event as data; json.dumps raises on an "object"
JsonData == [kind |-> "json"]
ObjectData == [kind |-> "object"]

JsonDumpsRaises(data) == data.kind = "object"

NewHandler(sid) ==
    [closed |-> FALSE, heartbeat_callback |-> FALSE, written |-> <<>>,
     finished |-> FALSE, session_id |-> sid]

\* close
Close(h) ==
    IF h.closed
    THEN h
    ELSE [h EXCEPT !.closed = TRUE, !.heartbeat_callback = FALSE]

SendEventUnchecked(h, event_type, data, event_id) ==
    IF JsonDumpsRaises(data) \/ h.finished
    THEN Close(h)
    ELSE [h EXCEPT !.written = Append(@, SSEFrame(event_id, event_type, data))]

\* send_event
SendEvent(h, event_type, data, event_id) ==
    IF h.closed
    THEN h
    ELSE IF JsonDumpsRaises(data) \/ h.finished
         THEN Close(h)
         ELSE [h EXCEPT !.written =
                          Append(@, SSEFrame(event_id, event_type, data))]

\* send_heartbeat
SendHeartbeat(h) ==
    IF h.closed
    THEN h
    ELSE IF h.finished
         THEN Close(h)
         ELSE [h EXCEPT !.written = Append(@, HeartbeatFrame)]

\* start_heartbeat_loop
StartHeartbeatLoop(h) ==
    IF h.closed
    THEN h
    ELSE SendHeartbeat([h EXCEPT !.heartbeat_callback = TRUE])

\* the callback of replay_events_after in _handle_get (lines 121-125) applied
\* to the entries a replay emits
RECURSIVE SendReplayed(_, _)
SendReplayed(h, entries) ==
    IF entries = <<>>
    THEN h
    ELSE SendReplayed(SendEvent(h, "message",
                                [kind |-> "message",
                                 message |-> Head(entries).message],
                                Some(Head(entries).event_id)),
                      Tail(entries))

\* the entries replay_events_after passes to its callback, none of whose
\* awaits suspends when the callback is send_event
ReplayedEntries(ix, st, last_event_id) ==
    LET plan == ReplayPlan(ix, st, last_event_id)
    IN IF plan.outcome = "run"
       THEN SubSeq(st[plan.stream_id], plan.i + 2, plan.n)
       ELSE <<>>

\* ---- TornadoSessionManager -----------------------------------------------
\* session ids a request header or an API caller may present
PresentedIds == ClientSessionIds \cup { Uuids[k] : k \in 1..minted }

Headers == {None} \cup { Some(sid) : sid \in PresentedIds }

\* _get_or_create_session_id: the session id the request runs under, the
\* registry and the number of generated ids after the call
GetOrCreateSessionId(header) ==
    IF header = None
    THEN [session_id |-> Uuids[minted + 1],
          sessions |-> Put(sessions, Uuids[minted + 1], [created_at |-> now]),
          minted |-> minted + 1]
    ELSE [session_id |-> header[1], sessions |-> sessions, minted |-> minted]

\* a uuid is left to generate when the request needs one
CanResolve(header) == header # None \/ minted < Len(Uuids)

\* session_info.get("status", "active")
StatusOf(session) ==
    IF "status" \in DOMAIN session THEN session.status ELSE "active"

\* lines 292-293
EndedSession(session, current_time) ==
    [k \in (DOMAIN session) \cup {"status", "ended_at"} |->
        IF k = "status" THEN "ended"
        ELSE IF k = "ended_at" THEN current_time
        ELSE session[k]]

\* end_session: the registry, the handler map and the handler objects after
\* the call
EndSessionState(ss, sh, hs, sid, current_time) ==
    IF sid \in DOMAIN ss
    THEN <<Put(ss, sid, EndedSession(ss[sid], current_time)),
           Remove(sh, sid),
           IF sid \in DOMAIN sh
           THEN [hs EXCEPT ![sh[sid]] = Close(@)]
           ELSE hs>>
    ELSE <<ss, sh, hs>>

\* self.json_response as the constructor defaults it
json_response == FALSE

\* Requests and API calls.  None of the awaits of _handle_get suspends
\* (start_heartbeat_loop, send_event and the replay over send_event run to
\* completion), nor do those of the other calls modelled here, so each is one
\* step that leaves its outcome in lastOp.

\* handle_request for a GET: _handle_get, and the except clause of lines
\* 93-96 when line 131 raises KeyError
HandleGet(header, last_event_id) ==
    /\ lastOp = NoCall
    /\ CanResolve(header)
    /\ LET r == GetOrCreateSessionId(header)
           sid == r.session_id
           started == StartHeartbeatLoop(NewHandler(sid))
           replayed ==
               IF last_event_id # None
               THEN SendReplayed(started,
                                 ReplayedEntries(event_index, streams,
                                                 last_event_id[1]))
               ELSE started
           known == sid \in DOMAIN r.sessions
           done ==
               IF known
               THEN SendEvent(replayed, "session_info",
                              [kind |-> "session_info", session_id |-> sid,
                               status |-> StatusOf(r.sessions[sid])],
                              None)
               ELSE [replayed EXCEPT !.finished = TRUE]
       IN /\ sessions' = r.sessions
          /\ minted' = r.minted
          /\ handlers' = Append(handlers, done)
          /\ sse_handlers' = Put(sse_handlers, sid, Len(handlers) + 1)
          /\ lastOp' = [op |-> "GET", session_id |-> sid,
                        status |-> IF known THEN 200 ELSE 500,
                        handler |-> Len(handlers) + 1,
                        last_event_id |-> last_event_id]
    /\ UNCHANGED <<config, services, store, now, issued, replay, emitted, scheduled,
                   calls>>

\* handle_request for a POST carrying an MCP message other than tools/call:
\* _handle_post, _handle_mcp_message
HandlePost(header, msg) ==
    /\ lastOp = NoCall
    /\ CanResolve(header)
    /\ LET r == GetOrCreateSessionId(header)
           sid == r.session_id
           entry == TornadoEventEntry(Len(issued) + 1, sid, msg, now)
           via_sse == ~json_response /\ sid \in DOMAIN sse_handlers
       IN /\ sessions' = r.sessions
          /\ minted' = r.minted
          /\ SetStore(StoreEventStore(streams, stream_keys, event_index,
                                      stream_metadata, sid, entry))
          /\ issued' = Append(issued, [stream_id |-> sid, message |-> msg])
          /\ handlers' =
               IF via_sse
               THEN [handlers EXCEPT ![sse_handlers[sid]] =
                        SendEvent(@, "mcp_response",
                                  [kind |-> "mcp_response"], None)]
               ELSE handlers
          /\ lastOp' = [op |-> "POST", session_id |-> sid,
                        body |-> IF via_sse THEN None
                                            ELSE Some("mcp_response"),
                        handler |-> IF via_sse THEN Some(sse_handlers[sid])
                                               ELSE None]
    /\ UNCHANGED <<config, services, now, emitted, sse_handlers, scheduled, calls>>

\* handle_request for a DELETE: _handle_delete
HandleDelete(header) ==
    /\ lastOp = NoCall
    /\ IF header # None
       THEN LET r == EndSessionState(sessions, sse_handlers, handlers,
                                     header[1], now)
            IN /\ sessions' = r[1]
               /\ sse_handlers' = r[2]
               /\ handlers' = r[3]
               /\ lastOp' = [op |-> "DELETE", header |-> header,
                             status |-> 200, body |-> "Session ended"]
       ELSE /\ UNCHANGED <<sessions, sse_handlers, handlers, calls>>
            /\ lastOp' = [op |-> "DELETE", header |-> header,
                          status |-> 404, body |-> "Session not found"]
    /\ UNCHANGED <<config, services, store, now, issued, replay, emitted, scheduled,
                   minted, calls>>

\* start_session; given is None or Some(session id)
StartSession(given) ==
    /\ lastOp = NoCall
    /\ CanResolve(given)
    /\ LET sid == IF given = None THEN Uuids[minted + 1] ELSE given[1]
       IN /\ sessions' = Put(sessions, sid,
                             [id |-> sid, status |-> "active",
                              created_at |-> now])
          /\ minted' = IF given = None THEN minted + 1 ELSE minted
          /\ lastOp' = [op |-> "start_session", session_id |-> sid]
    /\ UNCHANGED <<config, services, store, now, issued, replay, emitted, sse_handlers,
                   handlers, scheduled, calls>>

\* end_session
EndSession(sid) ==
    /\ lastOp = NoCall
    /\ LET r == EndSessionState(sessions, sse_handlers, handlers, sid, now)
       IN /\ sessions' = r[1]
          /\ sse_handlers' = r[2]
          /\ handlers' = r[3]
    /\ lastOp' = [op |-> "end_session", session_id |-> sid]
    /\ UNCHANGED <<config, services, store, now, issued, replay, emitted, scheduled,
                   minted, calls>>

\* create_sse_stream: start_heartbeat_loop is handed to add_callback
CreateSseStream(header) ==
    /\ lastOp = NoCall
    /\ CanResolve(header)
    /\ LET r == GetOrCreateSessionId(header)
       IN /\ sessions' = r.sessions
          /\ minted' = r.minted
          /\ handlers' = Append(handlers, NewHandler(r.session_id))
          /\ sse_handlers' = Put(sse_handlers, r.session_id,
                                 Len(handlers) + 1)
          /\ scheduled' = scheduled \cup {Len(handlers) + 1}
          /\ lastOp' = [op |-> "create_sse_stream",
                        session_id |-> r.session_id,
                        handler |-> Len(handlers) + 1]
    /\ UNCHANGED <<config, services, store, now, issued, replay, emitted, calls>>

\* the IOLoop runs a queued start_heartbeat_loop
RunHeartbeatLoop(h) ==
    /\ lastOp = NoCall
    /\ h \in scheduled
    /\ scheduled' = scheduled \ {h}
    /\ handlers' = [handlers EXCEPT ![h] = StartHeartbeatLoop(@)]
    /\ UNCHANGED <<config, services, store, now, issued, replay, emitted, lastOp,
                   sessions, sse_handlers, minted, calls>>

\* the PeriodicCallback of a handler fires: _send_heartbeat_wrapper
HeartbeatTick(h) ==
    /\ lastOp = NoCall
    /\ handlers[h].heartbeat_callback
    /\ handlers' = [handlers EXCEPT ![h] = SendHeartbeat(@)]
    /\ UNCHANGED <<config, services, store, now, issued, replay, emitted, lastOp,
                   sessions, sse_handlers, scheduled, minted, calls>>

\* handler objects registered in self._sse_handlers
Registered == { sse_handlers[sid] : sid \in DOMAIN sse_handlers }

\* broadcast_event
BroadcastEvent(data) ==
    /\ lastOp = NoCall
    /\ handlers' = [h \in DOMAIN handlers |->
                       IF h \in Registered
                       THEN SendEvent(handlers[h], "notification", data, None)
                       ELSE handlers[h]]
    /\ lastOp' = [op |-> "broadcast_event", data |-> data]
    /\ UNCHANGED <<config, services, store, now, issued, replay, emitted, sessions,
                   sse_handlers, scheduled, minted, calls>>

\* ---- POST bodies and tools/call ------------------------------------------
\* error codes of mcp.types
INTERNAL_ERROR == -32603
INVALID_PARAMS == -32602

\* Exceptions are records naming their class.
TypeError == [class |-> "TypeError", code |-> 0]

\* what a tool raises when a required argument is missing:
\* MCPError(ErrorData(code = INVALID_PARAMS, ...))
MissingArgument == [class |-> "MCPError", code |-> INVALID_PARAMS]

\* any other failure of a tool
ToolFailure == [class |-> "Exception", code |-> 0]

ToolErrors == {MissingArgument, ToolFailure}

\* raise ErrorData(code = ..., message = ...): mcp.types.ErrorData is a
\* pydantic model, not an exception class (which is why exceptions.py wraps
\* it in MCPError), so the raise statement itself raises TypeError
RaiseErrorData(code) == TypeError

\* isinstance(e, ErrorData)
IsErrorData(e) == e.class = "ErrorData"

\* the except clause around fastmcp.call_tool (lines 334-341)
CallToolFailure(e) ==
    IF IsErrorData(e) THEN e ELSE RaiseErrorData(INTERNAL_ERROR)

\* lines 196-202: the ErrorData the error envelope is built from
ErrorDataOf(e) ==
    IF IsErrorData(e)
    THEN [code |-> e.code, message |-> e.class]
    ELSE [code |-> INTERNAL_ERROR, message |-> e.class]

\* JSONRPCError(jsonrpc = "2.0", id = error_id, error = error_data)
ErrorResponse(error_id, error_data) ==
    [kind |-> "error", id |-> error_id, code |-> error_data.code,
     message |-> error_data.message]

\* what _handle_tool_call returns: {} for a notification, else the
\* JSONRPCResponse carrying the id
ToolResponse(tool_call_id) ==
    IF tool_call_id = None
    THEN [kind |-> "empty"]
    ELSE [kind |-> "result", id |-> tool_call_id]

\* a notification answered as if it carried an id
NeverNotification(error_id) == FALSE

\* error_id is None (line 211)
IsNotification(error_id) == error_id = None

\* not (self.json_response or not self._sse_handlers.get(session_id))
ViaSse(sh, sid) == ~json_response /\ sid \in DOMAIN sh

\* tools/call requests: the id is absent or 1, the tool name absent or given
ToolRequests ==
    { [method |-> "tools/call", id |-> i, name |-> n] :
          i \in {None, Some(1)}, n \in {None, Some("tool")} }

\* the outcome of a POST that _handle_post has finished: the handler objects
\* and the record left in lastOp
PostOutcome(hs, sid, request, failure, body, handler) ==
    [handlers |-> hs,
     lastOp |-> [op |-> "POST", session_id |-> sid, request |-> request,
                 failure |-> failure, status |-> 200, body |-> body,
                 handler |-> handler, finish_calls |-> 1]]

\* the except clause of _handle_post (lines 193-238) for the exception e;
\* cause tells where it came from
PostFailed(hs, sh, sid, request, e, cause) ==
    LET error_data == ErrorDataOf(e)
        error_id == request.id
        error_response == ErrorResponse(error_id, error_data)
    IN IF IsNotification(error_id)
       THEN PostOutcome(hs, sid, request, Some(cause),
                        IF ViaSse(sh, sid) THEN None
                                           ELSE Some([kind |-> "empty"]),
                        None)
       ELSE IF ViaSse(sh, sid)
            THEN PostOutcome([hs EXCEPT ![sh[sid]] =
                                 SendEvent(@, "error", error_response, None)],
                             sid, request, Some(cause), None, Some(sh[sid]))
            ELSE PostOutcome(hs, sid, request, Some(cause),
                             Some(error_response), None)

RemoveAt(seq, c) == SubSeq(seq, 1, c - 1) \o SubSeq(seq, c + 1, Len(seq))

\* handle_request for a POST carrying a tools/call message, up to the await
\* of fastmcp.call_tool (line 333), where the request suspends; a request
\* without a tool name fails at line 326 and is answered in the same step
HandleToolCall(header, request) ==
    /\ lastOp = NoCall
    /\ CanResolve(header)
    /\ LET r == GetOrCreateSessionId(header)
           sid == r.session_id
       IN /\ sessions' = r.sessions
          /\ minted' = r.minted
          /\ IF request.name = None
             THEN LET out == PostFailed(handlers, sse_handlers, sid, request,
                                        RaiseErrorData(INVALID_PARAMS),
                                        [at |-> "name", error |-> TypeError])
                  IN /\ handlers' = out.handlers
                     /\ lastOp' = out.lastOp
                     /\ calls' = calls
             ELSE /\ calls' = Append(calls, [session_id |-> sid,
                                             request |-> request])
                  /\ UNCHANGED <<handlers, lastOp>>
    /\ UNCHANGED <<config, services, store, now, issued, replay, emitted, sse_handlers,
                   scheduled>>

\* fastmcp.call_tool returns: the rest of _handle_tool_call (store_event,
\* the response) and of _handle_post (lines 163-175)
ToolCallReturns(c) ==
    /\ lastOp = NoCall
    /\ c \in DOMAIN calls
    /\ LET sid == calls[c].session_id
           request == calls[c].request
           entry == TornadoEventEntry(Len(issued) + 1, sid, "tool_call", now)
           result == ToolResponse(request.id)
           out == IF ViaSse(sse_handlers, sid)
                  THEN PostOutcome([handlers EXCEPT ![sse_handlers[sid]] =
                                       SendEvent(@, "tool_result", result,
                                                 None)],
                                   sid, request, None, None,
                                   Some(sse_handlers[sid]))
                  ELSE PostOutcome(handlers, sid, request, None,
                                   Some(result), None)
       IN /\ SetStore(StoreEventStore(streams, stream_keys, event_index,
                                      stream_metadata, sid, entry))
          /\ issued' = Append(issued, [stream_id |-> sid,
                                       message |-> "tool_call"])
          /\ handlers' = out.handlers
          /\ lastOp' = out.lastOp
    /\ calls' = RemoveAt(calls, c)
    /\ UNCHANGED <<config, services, now, emitted, sessions, sse_handlers, scheduled,
                   minted>>

\* fastmcp.call_tool raises e: lines 334-341, then the except clause of
\* _handle_post
ToolCallRaises(c, e) ==
    /\ lastOp = NoCall
    /\ c \in DOMAIN calls
    /\ LET out == PostFailed(handlers, sse_handlers, calls[c].session_id,
                             calls[c].request, CallToolFailure(e),
                             [at |-> "tool", error |-> e])
       IN /\ handlers' = out.handlers
          /\ lastOp' = out.lastOp
    /\ calls' = RemoveAt(calls, c)
    /\ UNCHANGED <<config, services, store, now, issued, replay, emitted, sessions,
                   sse_handlers, scheduled, minted>>

\* request bodies: JSON text, text that is not JSON, bytes that are not text
Bodies == {"json", "malformed", "undecodable"}

\* json.loads(request_handler.request.body): the class of the exception it
\* raises, None when it returns
JsonLoadsRaises(body) ==
    IF body = "malformed" THEN Some("JSONDecodeError")
    ELSE IF body = "undecodable" THEN Some("UnicodeDecodeError")
    ELSE None

\* handle_request for a POST that does not reach _handle_post (lines 66-80,
\* and lines 93-96 for an exception other than JSONDecodeError)
HandleUnparsedPost(header, json_content_type, body) ==
    /\ lastOp = NoCall
    /\ ~json_content_type \/ JsonLoadsRaises(body) # None
    /\ lastOp' = [op |-> "POST unparsed", header |-> header, body |-> body,
                  json_content_type |-> json_content_type,
                  status |-> IF ~json_content_type THEN 400
                             ELSE IF JsonLoadsRaises(body)
                                       = Some("JSONDecodeError")
                                  THEN 400
                                  ELSE 500]
    /\ UNCHANGED <<config, services, manager, store, now, issued, replay, emitted>>

\* ---- ResourceAuthorizer (auth.py) ----------------------------------------
Permissions == {"read", "write", "execute", "admin"}

\* permission names a caller may ask for; "delete" is not in the hierarchy
RequestedPermissions == Permissions \cup {"delete"}

Documents == {"/test.md", "/other.md"}

\* user claims: the admin flag and document_permissions, a dictionary from
\* document paths to lists of permissions (an absent key is an empty one)
UserClaims ==
    { [admin |-> a, document_permissions |-> dp] :
          a \in BOOLEAN,
          dp \in UNION { [D -> SUBSET Permissions] :
                           D \in SUBSET {"/test.md"} } }

\* permission_hierarchy of _has_permission
PermissionHierarchy ==
    [p \in Permissions |->
        IF p = "read" THEN {"read"}
        ELSE IF p = "write" THEN {"read", "write"}
        ELSE IF p = "execute" THEN {"read", "write", "execute"}
        ELSE {"read", "write", "execute", "admin"}]

\* _has_permission
HasPermission(user_permissions, required_permission) ==
    IF required_permission \notin DOMAIN PermissionHierarchy
    THEN FALSE
    ELSE \E perm \in PermissionHierarchy[required_permission] :
             perm \in user_permissions

\* what check_document_access returns
CheckDocumentAccessResult(user_claims, document_path, permission) ==
    IF user_claims.admin
    THEN TRUE
    ELSE IF document_path \in DOMAIN user_claims.document_permissions
         THEN HasPermission(user_claims.document_permissions[document_path],
                            permission)
         ELSE permission = "read"

\* check_document_access
CheckDocumentAccess(user_claims, document_path, permission) ==
    /\ lastOp = NoCall
    /\ lastOp' = [op |-> "check_document_access",
                  user_claims |-> user_claims,
                  document_path |-> document_path,
                  permission |-> permission,
                  ret |-> CheckDocumentAccessResult(user_claims,
                                                    document_path,
                                                    permission)]
    /\ UNCHANGED <<config, services, manager, store, now, issued, replay, emitted>>

SessionPermissions == {"join", "leave", "manage"}

CollaborationSessions == {"test-session", "other-session"}

\* user claims: the admin flag and session_permissions, a dictionary from
\* session ids to lists of permissions
SessionClaims ==
    { [admin |-> a, session_permissions |-> sp] :
          a \in BOOLEAN,
          sp \in UNION { [S -> SUBSET SessionPermissions] :
                           S \in SUBSET {"test-session"} } }

\* what check_session_access returns
CheckSessionAccessResult(user_claims, session_id, permission) ==
    IF user_claims.admin
    THEN TRUE
    ELSE IF session_id \in DOMAIN user_claims.session_permissions
         THEN HasPermission(user_claims.session_permissions[session_id],
                            permission)
         ELSE permission = "join"

\* check_session_access
CheckSessionAccess(user_claims, session_id, permission) ==
    /\ lastOp = NoCall
    /\ lastOp' = [op |-> "check_session_access",
                  user_claims |-> user_claims,
                  session_id |-> session_id,
                  permission |-> permission,
                  ret |-> CheckSessionAccessResult(user_claims, session_id,
                                                   permission)]
    /\ UNCHANGED <<config, services, manager, store, now, issued, replay, emitted>>

\* ---- AuthManager (auth.py) -----------------------------------------------
ClientIds == {"c1", "c2"}

\* the clock datetime.utcnow() reads
ClockAdvances ==
    /\ lastOp = NoCall
    /\ utcnow < MaxClock
    /\ utcnow' = utcnow + 1
    /\ UNCHANGED <<config, manager, store, now, issued, replay, emitted,
                   lastOp, rate_limits, accepted, adapter_calls, rtc>>

Forgotten(client_id) == <<>>

\* the list check_rate_limit keeps for client_id: the timestamps younger
\* than the window, or a new list
CleanedUp(client_id) ==
    IF client_id \in DOMAIN rate_limits
    THEN SelectSeq(rate_limits[client_id],
                   LAMBDA timestamp : utcnow - timestamp < RateLimitWindow)
    ELSE <<>>

\* check_rate_limit
CheckRateLimit(client_id) ==
    LET kept == CleanedUp(client_id)
        exceeded == Len(kept) >= RateLimitRequests
    IN  /\ lastOp = NoCall
        /\ rate_limits' =
               Put(rate_limits, client_id,
                   IF exceeded THEN kept ELSE Append(kept, utcnow))
        /\ accepted' =
               IF exceeded
               THEN accepted
               ELSE Append(accepted, [client_id |-> client_id, at |-> utcnow])
        /\ lastOp' = [op |-> "check_rate_limit", client_id |-> client_id,
                      ret |-> ~exceeded]
        /\ UNCHANGED <<config, manager, store, now, issued, replay, emitted,
                       utcnow, adapter_calls, rtc>>

\* ---- tool handlers (handlers.py) ----------------------------------------
\* the checks each handler makes on its arguments before it calls the
\* adapter: all([path, ...]) tests truth, position is not None tests presence
HandlerChecks ==
    "list_notebooks" :> <<>> @@
    "get_notebook" :>
        <<[arg |-> "path", test |-> "truthy"]>> @@
    "create_notebook_session" :>
        <<[arg |-> "path", test |-> "truthy"]>> @@
    "update_notebook_cell" :>
        <<[arg |-> "path", test |-> "truthy"],
          [arg |-> "cell_id", test |-> "truthy"],
          [arg |-> "content", test |-> "truthy"]>> @@
    "insert_notebook_cell" :>
        <<[arg |-> "path", test |-> "truthy"],
          [arg |-> "content", test |-> "truthy"],
          [arg |-> "position", test |-> "not_none"]>> @@
    "delete_notebook_cell" :>
        <<[arg |-> "path", test |-> "truthy"],
          [arg |-> "cell_id", test |-> "truthy"]>> @@
    "execute_notebook_cell" :>
        <<[arg |-> "path", test |-> "truthy"],
          [arg |-> "cell_id", test |-> "truthy"]>> @@
    "list_documents" :> <<>> @@
    "get_document" :>
        <<[arg |-> "path", test |-> "truthy"]>> @@
    "create_document_session" :>
        <<[arg |-> "path", test |-> "truthy"]>> @@
    "update_document" :>
        <<[arg |-> "path", test |-> "truthy"],
          [arg |-> "content", test |-> "truthy"]>> @@
    "insert_text" :>
        <<[arg |-> "path", test |-> "truthy"],
          [arg |-> "text", test |-> "truthy"],
          [arg |-> "position", test |-> "not_none"]>> @@
    "delete_text" :>
        <<[arg |-> "path", test |-> "truthy"],
          [arg |-> "position", test |-> "not_none"],
          [arg |-> "length", test |-> "not_none"]>> @@
    "get_document_history" :>
        <<[arg |-> "path", test |-> "truthy"]>> @@
    "restore_document_version" :>
        <<[arg |-> "path", test |-> "truthy"],
          [arg |-> "version_id", test |-> "truthy"]>> @@
    "fork_document" :>
        <<[arg |-> "path", test |-> "truthy"]>> @@
    "merge_document_fork" :>
        <<[arg |-> "path", test |-> "truthy"],
          [arg |-> "fork_id", test |-> "truthy"]>> @@
    "get_online_users" :> <<>> @@
    "get_user_presence" :>
        <<[arg |-> "user_id", test |-> "truthy"]>> @@
    "set_user_presence" :> <<>> @@
    "get_user_cursors" :>
        <<[arg |-> "document_path", test |-> "truthy"]>> @@
    "update_cursor_position" :>
        <<[arg |-> "document_path", test |-> "truthy"],
          [arg |-> "position", test |-> "truthy"]>> @@
    "get_user_activity" :> <<>> @@
    "broadcast_user_activity" :>
        <<[arg |-> "activity_type", test |-> "truthy"],
          [arg |-> "description", test |-> "truthy"]>> @@
    "get_active_sessions" :> <<>> @@
    "join_session" :>
        <<[arg |-> "session_id", test |-> "truthy"]>> @@
    "leave_session" :>
        <<[arg |-> "session_id", test |-> "truthy"]>>

ToolNames == DOMAIN HandlerChecks

\* values of an argument: the empty string, the number 0, another value
ArgValues == {"", "zero", "x"}

\* arguments.get(key)
ArgumentsGet(arguments, key) ==
    IF key \in DOMAIN arguments THEN arguments[key] ELSE "null"

\* bool(value) of an argument value
Truthy(value) == value \notin {"null", "", "zero"}

AlwaysPasses(check, arguments) == TRUE

\* one element of the list handed to all()
Passes(check, arguments) ==
    IF check.test = "truthy"
    THEN Truthy(ArgumentsGet(arguments, check.arg))
    ELSE ArgumentsGet(arguments, check.arg) # "null"

\* the argument dictionaries a handler is called with
ArgumentInputs(tool) ==
    UNION { [A -> ArgValues] :
              A \in SUBSET { HandlerChecks[tool][i].arg :
                               i \in 1..Len(HandlerChecks[tool]) } }

\* the names a handler is called with
NameInputs(tool) == {tool, "unknown_tool", "get_notebook"}

ValueError == [class |-> "ValueError", code |-> 0]

\* the handler registered for tool, called with name and arguments
CallToolHandler(tool, name, arguments) ==
    LET checks == HandlerChecks[tool]
        raised ==
            IF name # tool
            THEN Some(ValueError)
            ELSE IF \E i \in 1..Len(checks) : ~Passes(checks[i], arguments)
                 THEN Some(ValueError)
                 ELSE None
    IN  /\ lastOp = NoCall
        /\ raised = None => adapter_calls < MaxForwarded
        /\ adapter_calls' =
               IF raised = None THEN adapter_calls + 1 ELSE adapter_calls
        /\ lastOp' = [op |-> "call_tool", handler |-> tool, name |-> name,
                      arguments |-> arguments, raised |-> raised]
        /\ UNCHANGED <<config, auth, rtc, manager, store, now, issued,
                       replay, emitted>>

\* ---- InMemoryEventStore.stream_events (event_store.py) --------------------
\* await send_callback(...) with send_callback = lambda event: None: the
\* callback returns None, which cannot be awaited
AwaitNone == Some(TypeError)

\* what iterating stream_events does: the exception that ends it, or the
\* events it yields.  The replay of line 356 raises at its first callback,
\* that is, when an entry follows the cursor in the cursor's stream.
StreamEventsResult(ix, st, stream_id, after_event_id) ==
    LET plan == IF after_event_id = None
                THEN [outcome |-> "none", stream_id |-> "s1", i |-> 0,
                      n |-> 0]
                ELSE ReplayPlan(ix, st, after_event_id[1])
        events == GetStreamEventsResult(st, stream_id, None)
    IN IF plan.outcome = "run" /\ plan.i + 1 < plan.n
       THEN [raised |-> AwaitNone, yielded |-> <<>>]
       ELSE [raised |-> None,
             yielded |->
                 SelectSeq(events,
                           LAMBDA event :
                               \/ after_event_id = None
                               \/ event.event_id # after_event_id[1])]

\* stream_events, iterated to its end
StreamEvents(stream_id, after_event_id) ==
    /\ lastOp = NoCall
    /\ ~LockHeld
    /\ lastOp' = [op |-> "stream_events", stream_id |-> stream_id,
                  after_event_id |-> after_event_id,
                  ret |-> StreamEventsResult(event_index, streams, stream_id,
                                             after_event_id)]
    /\ UNCHANGED <<config, services, manager, store, now, issued, replay,
                   emitted>>

\* ---- RTCAdapter (rtc_adapter.py) ------------------------------------------
\* A path is the name of a file and the fork id in f"{path}.fork-{fork_id}"
\* (0 for a file that is not a fork).  The collaboration engine is its
\* documents: the source text of the room of each path.
DocumentNames == {"/a.md", "/b.md"}

Path(name) == [name |-> name, fork |-> 0]

ForkPath(path, fork_id) == [name |-> path.name, fork |-> fork_id]

\* the text of a document before any edit: MaxText distinct characters
InitialText == [i \in 1..MaxText |-> i]

AttributeError == [class |-> "AttributeError", code |-> 0]

\* _get_or_create_room: None when the engine cannot index the file, else a
\* room; the adapter caches a room only after line 997 has read
\* self.event_logger, which raises when the attribute is missing
GetOrCreateRoom(path, indexed) ==
    IF ~indexed
    THEN [kind |-> "none"]
    ELSE IF ~event_logger
         THEN [kind |-> "raise"]
         ELSE [kind |-> "room"]

\* text[:k] of a Python sequence
SliceTo(text, k) ==
    IF k >= 0
    THEN SubSeq(text, 1, IF k < Len(text) THEN k ELSE Len(text))
    ELSE SubSeq(text, 1, IF Len(text) + k > 0 THEN Len(text) + k ELSE 0)

\* text[k:] of a Python sequence
SliceFrom(text, k) ==
    IF k >= 0
    THEN SubSeq(text, (IF k < Len(text) THEN k ELSE Len(text)) + 1,
                Len(text))
    ELSE SubSeq(text, (IF Len(text) + k > 0 THEN Len(text) + k ELSE 0) + 1,
                Len(text))

\* line 519
DeleteInRange(source_text, position, length) ==
    position >= 0 /\ position + length <= Len(source_text)

\* lines 518-524: the text of the document after delete_text
TextAfterDelete(source_text, position, length) ==
    IF DeleteInRange(source_text, position, length)
    THEN SliceTo(source_text, position)
           \o SliceFrom(source_text, position + length)
    ELSE source_text

\* delete_text; indexed is the engine's answer for the file
DeleteText(path, position, length, indexed) ==
    LET room == GetOrCreateRoom(path, indexed)
        new_text == TextAfterDelete(documents[path], position, length)
    IN  /\ lastOp = NoCall
        /\ path \in DOMAIN documents
        /\ IF room.kind = "room"
           THEN /\ documents' = [documents EXCEPT ![path] = new_text]
                /\ lastOp' = [op |-> "delete_text", path |-> path,
                              position |-> position, length |-> length,
                              raised |-> None,
                              ret |-> Some([success |-> TRUE,
                                            new_length |-> Len(new_text)])]
           ELSE /\ documents' = documents
                /\ lastOp' = [op |-> "delete_text", path |-> path,
                              position |-> position, length |-> length,
                              raised |-> Some(IF room.kind = "none"
                                              THEN ValueError
                                              ELSE AttributeError),
                              ret |-> None]
        /\ UNCHANGED <<config, auth, adapter_calls, manager, store, now,
                       issued, replay, emitted, document_forks, forks_minted,
                       event_logger>>

\* fork_document; fork_indexed is the engine's answer for the fork's file;
\* title, description and created_at of the fork's record are left out
ForkDocument(path, synchronize, fork_indexed) ==
    LET room == GetOrCreateRoom(path, TRUE)
        fork_id == forks_minted + 1
        fork_path == ForkPath(path, fork_id)
        fork_room == GetOrCreateRoom(fork_path, fork_indexed)
        fork_info == [id |-> fork_id, original_path |-> path,
                      fork_path |-> fork_path, synchronize |-> synchronize]
        call == [op |-> "fork_document", path |-> path,
                 synchronize |-> synchronize]
    IN  /\ lastOp = NoCall
        /\ path \in DOMAIN documents
        /\ IF room.kind # "room"
           THEN /\ lastOp' = call @@ [raised |-> Some(AttributeError),
                                      ret |-> None]
                /\ UNCHANGED <<documents, document_forks, forks_minted>>
           ELSE IF fork_room.kind # "room"
           THEN /\ lastOp' = call @@ [raised |-> Some(ValueError),
                                      ret |-> None]
                /\ forks_minted' = forks_minted + 1
                /\ UNCHANGED <<documents, document_forks>>
           ELSE /\ documents' = Put(documents, fork_path, documents[path])
                /\ document_forks' =
                       Put(document_forks, fork_id, fork_info)
                /\ forks_minted' = forks_minted + 1
                /\ lastOp' = call @@ [raised |-> None,
                                      ret |-> Some([success |-> TRUE,
                                                    fork_id |-> fork_id])]
        /\ UNCHANGED <<config, auth, adapter_calls, manager, store, now,
                       issued, replay, emitted, event_logger>>

KeepFork(forks, fork_info) == forks

\* lines 634-635: the registry after a merge of the fork
CleanUpFork(forks, fork_info) ==
    IF ~fork_info.synchronize THEN Remove(forks, fork_info.id) ELSE forks

\* merge_document_fork; fork_indexed is the engine's answer for the fork's
\* file
MergeDocumentFork(path, fork_id, fork_indexed) ==
    LET call == [op |-> "merge_document_fork", path |-> path,
                 fork_id |-> fork_id]
        failed(e) == call @@ [raised |-> Some(e), ret |-> None]
    IN  /\ lastOp = NoCall
        /\ IF fork_id \notin DOMAIN document_forks
           THEN /\ lastOp' = failed(ValueError)
                /\ UNCHANGED <<documents, document_forks>>
           ELSE IF document_forks[fork_id].original_path # path
           THEN /\ lastOp' = failed(ValueError)
                /\ UNCHANGED <<documents, document_forks>>
           ELSE IF GetOrCreateRoom(path, TRUE).kind # "room"
           THEN /\ lastOp' = failed(AttributeError)
                /\ UNCHANGED <<documents, document_forks>>
           ELSE IF GetOrCreateRoom(document_forks[fork_id].fork_path,
                                   fork_indexed).kind # "room"
           THEN /\ lastOp' = failed(ValueError)
                /\ UNCHANGED <<documents, document_forks>>
           ELSE LET fork_info == document_forks[fork_id]
                IN /\ documents' =
                          [documents EXCEPT ![path] =
                               documents[fork_info.fork_path]]
                   /\ document_forks' =
                          CleanUpFork(document_forks, fork_info)
                   /\ lastOp' = call @@ [raised |-> None,
                                         ret |-> Some([success |-> TRUE,
                                                       fork_id |-> fork_id])]
        /\ UNCHANGED <<config, auth, adapter_calls, manager, store, now,
                       issued, replay, emitted, forks_minted, event_logger>>

\* the event log without replays: every mutating call, on three streams
Next ==
    \/ Tick
    \/ Return
    \/ \E sid \in StreamIds :
           Len(issued) < MaxEvents /\ StoreEvent(sid, "a")
    \/ \E sid \in StreamIds : RemoveStream(sid)
    \/ \E max_age \in Times : PruneOldStreams(max_age)
    \/ \E given \in BOOLEAN, sid \in StreamIds, metadata \in MetadataInputs :
           CreateStream(given, sid, metadata)
    \/ \E sid \in StreamIds, metadata \in MetadataInputs :
           UpdateStreamMetadata(sid, metadata)

Spec == Init /\ [][Next]_vars

\* replays running against insertions, removals and prunings
NextReplay ==
    \/ Tick
    \/ Return
    \/ \E sid \in ReplayStreams :
           Len(issued) < MaxReplayEvents /\ StoreEvent(sid, "a")
    \/ \E sid \in ReplayStreams : RemoveStream(sid)
    \/ \E max_age \in Times : PruneOldStreams(max_age)
    \/ \E last_event_id \in 1..(MaxReplayEvents + 1) :
           ReplayStart(last_event_id)
    \/ ReplayResume

SpecReplay == InitReplay /\ [][NextReplay]_vars

\* insertions and removals observed through the read operations
NextRead ==
    \/ Return
    \/ \E sid \in ReplayStreams, msg \in Messages :
           Len(issued) < MaxReplayEvents /\ StoreEvent(sid, msg)
    \/ \E sid \in ReplayStreams : RemoveStream(sid)
    \/ \E eid \in 1..(MaxReplayEvents + 1) : GetEvent(eid)
    \/ \E sid \in ReplayStreams,
          limit \in {None} \cup {Some(n) : n \in 0..MaxLimit} :
           GetStreamEvents(sid, limit)
    \/ \E sid \in ReplayStreams : GetStreamMetadata(sid)
    \/ ListStreams
    \/ GetStats

SpecRead == InitReplay /\ [][NextRead]_vars

\* InMemoryEventStore: replays against insertions and removals that wait
\* for the lock
NextInMemory ==
    \/ Return
    \/ \E sid \in ReplayStreams :
           Len(issued) < MaxReplayEvents /\ StoreEvent(sid, "a")
    \/ \E sid \in ReplayStreams : RemoveStream(sid)
    \/ \E last_event_id \in 1..(MaxReplayEvents + 1) :
           ReplayStart(last_event_id)
    \/ ReplayResume

SpecInMemory == InitInMemory /\ [][NextInMemory]_vars

InitSession == Constructed(ReplayCapacity, StreamCap, FALSE)

\* the session registry: requests and API calls against the clock
NextSession ==
    \/ Tick
    \/ Return
    \/ \E header \in Headers :
           Len(handlers) < MaxChannels /\ HandleGet(header, None)
    \/ \E header \in Headers :
           Len(issued) < MaxSessionEvents /\ HandlePost(header, "a")
    \/ \E header \in Headers : HandleDelete(header)
    \/ \E given \in Headers : StartSession(given)
    \/ \E sid \in PresentedIds : EndSession(sid)

SpecSession == InitSession /\ [][NextSession]_vars

\* one SSE channel: requests, queued callbacks, heartbeat timers, broadcasts
NextChannel ==
    \/ Return
    \/ \E header \in Headers,
          last_event_id \in {None} \cup {Some(e) : e \in 1..MaxSessionEvents} :
           Len(handlers) < MaxChannels /\ HandleGet(header, last_event_id)
    \/ \E header \in Headers :
           Len(issued) < MaxSessionEvents /\ HandlePost(header, "a")
    \/ \E header \in Headers : HandleDelete(header)
    \/ \E header \in Headers :
           Len(handlers) < MaxChannels /\ CreateSseStream(header)
    \/ \E h \in scheduled : RunHeartbeatLoop(h)
    \/ \E h \in DOMAIN handlers :
           Len(handlers[h].written) < MaxFrames /\ HeartbeatTick(h)
    \/ \E data \in {JsonData, ObjectData} :
           /\ \A h \in Registered : Len(handlers[h].written) < MaxFrames
           /\ BroadcastEvent(data)

SpecChannel == InitSession /\ [][NextChannel]_vars

\* repeated GETs of sessions that were started
NextAttach ==
    \/ Return
    \/ \E given \in Headers : StartSession(given)
    \/ \E header \in Headers :
           Len(handlers) < MaxHandlers /\ HandleGet(header, None)
    \/ \E sid \in PresentedIds : EndSession(sid)
    \/ \E h \in DOMAIN handlers :
           Len(handlers[h].written) < MaxFrames /\ HeartbeatTick(h)

SpecAttach == InitSession /\ [][NextAttach]_vars

\* stream ids that are session ids
SessionStreams == ClientSessionIds \cup Range(Uuids)

\* a channel opened on a log that already holds events: GETs carrying a
\* cursor, then POSTs, store_event calls, broadcasts and the heartbeat timer
NextResume ==
    \/ Return
    \/ \E sid \in SessionStreams :
           Len(issued) < MaxResumeEvents /\ StoreEvent(sid, "a")
    \/ \E header \in Headers :
           Len(issued) < MaxResumeEvents /\ HandlePost(header, "a")
    \/ \E header \in Headers,
          last_event_id \in {None} \cup {Some(e) : e \in 1..MaxResumeEvents} :
           Len(handlers) < MaxChannels /\ HandleGet(header, last_event_id)
    \/ \E h \in DOMAIN handlers :
           Len(handlers[h].written) < MaxFrames + 2 /\ HeartbeatTick(h)
    \/ /\ \A h \in Registered : Len(handlers[h].written) < MaxFrames + 2
       /\ BroadcastEvent(JsonData)

SpecResume == InitSession /\ [][NextResume]_vars

\* the same under the scheduling of the IOLoop: a caller that was answered
\* goes on, and a started PeriodicCallback fires
FairResume ==
    /\ SpecResume
    /\ WF_vars(Return)
    /\ \A h \in 1..(MaxChannels + 1) :
          WF_vars(/\ h \in DOMAIN handlers
                  /\ Len(handlers[h].written) < MaxFrames + 2
                  /\ HeartbeatTick(h))

\* tools/call POSTs on a session with or without a channel: tool calls that
\* suspend, return or raise while other requests run
NextTool ==
    \/ Return
    \/ \E header \in Headers :
           Len(handlers) < MaxChannels /\ HandleGet(header, None)
    \/ \E header \in Headers, request \in ToolRequests :
           /\ Len(calls) < MaxPending
           /\ \A h \in Registered : Len(handlers[h].written) < MaxFrames
           /\ HandleToolCall(header, request)
    \/ \E c \in DOMAIN calls :
           Len(issued) < MaxSessionEvents /\ ToolCallReturns(c)
    \/ \E c \in DOMAIN calls, e \in ToolErrors : ToolCallRaises(c, e)
    \/ \E header \in Headers : HandleDelete(header)
    \/ /\ \A h \in Registered : Len(handlers[h].written) < MaxFrames
       /\ BroadcastEvent(ObjectData)

SpecTool == InitSession /\ [][NextTool]_vars

\* POSTs whose body is read or rejected, on a manager with sessions, a
\* channel, stored events and a suspended tool call
NextParse ==
    \/ Return
    \/ \E header \in Headers :
           Len(handlers) < MaxChannels /\ HandleGet(header, None)
    \/ \E header \in Headers :
           Len(issued) < MaxSessionEvents /\ HandlePost(header, "a")
    \/ \E header \in Headers :
           /\ Len(calls) < MaxPending
           /\ HandleToolCall(header, [method |-> "tools/call",
                                      id |-> Some(1), name |-> Some("tool")])
    \/ \E header \in Headers, json_content_type \in BOOLEAN,
          body \in Bodies :
           HandleUnparsedPost(header, json_content_type, body)

SpecParse == InitSession /\ [][NextParse]_vars

\* access checks on every combination of claims, document and permission
NextAuth ==
    \/ Return
    \/ \E user_claims \in UserClaims, document_path \in Documents,
          permission \in RequestedPermissions :
           CheckDocumentAccess(user_claims, document_path, permission)

SpecAuth == InitSession /\ [][NextAuth]_vars

\* session access checks on every combination of claims, session and
\* permission
NextSessionAccess ==
    \/ Return
    \/ \E user_claims \in SessionClaims, session_id \in CollaborationSessions,
          permission \in SessionPermissions :
           CheckSessionAccess(user_claims, session_id, permission)

SpecSessionAccess == InitSession /\ [][NextSessionAccess]_vars

\* two clients calling check_rate_limit while the clock advances
NextRateLimit ==
    \/ Return
    \/ ClockAdvances
    \/ \E client_id \in ClientIds : CheckRateLimit(client_id)

SpecRateLimit == InitSession /\ [][NextRateLimit]_vars

\* every handler called with its own and other names, and with every choice
\* of its checked arguments
NextHandlers ==
    \/ Return
    \/ \E tool \in ToolNames :
         \E name \in NameInputs(tool), arguments \in ArgumentInputs(tool) :
             CallToolHandler(tool, name, arguments)

SpecHandlers == InitSession /\ [][NextHandlers]_vars

\* InMemoryEventStore: streams read through stream_events while they grow
NextStream ==
    \/ Return
    \/ \E sid \in ReplayStreams :
           Len(issued) < MaxReplayEvents /\ StoreEvent(sid, "a")
    \/ \E sid \in ReplayStreams,
          after_event_id \in {None}
                             \cup {Some(e) : e \in 1..MaxReplayEvents} :
           StreamEvents(sid, after_event_id)

SpecStream == InitInMemory /\ [][NextStream]_vars

\* metadata dictionaries of a caller that sets event_count itself
CountingMetadataInputs == { EmptyMap, [event_count |-> 0] }

\* streams created, written and relabelled by callers that pass their own
\* event_count; no stream is removed or evicted
NextMetadata ==
    \/ Tick
    \/ Return
    \/ \E sid \in ReplayStreams :
           Len(issued) < MaxEvents /\ StoreEvent(sid, "a")
    \/ \E sid \in ReplayStreams, metadata \in CountingMetadataInputs :
           CreateStream(TRUE, sid, metadata)
    \/ \E sid \in ReplayStreams, metadata \in CountingMetadataInputs :
           UpdateStreamMetadata(sid, metadata)

SpecMetadata == InitReplay /\ [][NextMetadata]_vars

\* an adapter over the documents of the engine; the embedding application
\* has attached event_logger to it, or has not
InitAdapter ==
    /\ ConstructedServer(ReplayCapacity, StreamCap, FALSE)
    /\ rate_limits = EmptyMap
    /\ utcnow = 0
    /\ accepted = <<>>
    /\ adapter_calls = 0
    /\ documents = [p \in { Path(n) : n \in DocumentNames } |-> InitialText]
    /\ document_forks = EmptyMap
    /\ forks_minted = 0
    /\ event_logger \in BOOLEAN

\* one document edited by delete_text with every position and length
NextDelete ==
    \/ Return
    \/ \E position \in (0 - MaxText - 1)..(MaxText + 1),
          length \in (0 - MaxText - 1)..(MaxText + 1),
          indexed \in BOOLEAN :
           /\ Len(TextAfterDelete(documents[Path("/a.md")], position, length))
                <= MaxText + 1
           /\ DeleteText(Path("/a.md"), position, length, indexed)

SpecDelete == InitAdapter /\ [][NextDelete]_vars

\* documents forked, edited at their first character and merged back
NextFork ==
    \/ Return
    \/ \E name \in DocumentNames, synchronize \in BOOLEAN,
          fork_indexed \in BOOLEAN :
           /\ forks_minted < MaxForks
           /\ ForkDocument(Path(name), synchronize, fork_indexed)
    \/ \E path \in DOMAIN documents :
           /\ Len(documents[path]) = MaxText
           /\ DeleteText(path, 0, 1, TRUE)
    \/ \E name \in DocumentNames, fork_id \in 1..(MaxForks + 1),
          fork_indexed \in BOOLEAN :
           MergeDocumentFork(Path(name), fork_id, fork_indexed)

SpecFork == InitAdapter /\ [][NextFork]_vars

\* ---- properties ---------------------------------------------------------
Ids(dq) == [p \in 1..Len(dq) |-> dq[p].event_id]

Min(a, b) == IF a < b THEN a ELSE b

\* the last n elements of a sequence
LastN(seq, n) == SubSeq(seq, Len(seq) - Min(n, Len(seq)) + 1, Len(seq))

\* ids of the events stored under sid so far, in the order of the calls
StreamHistory(sid) ==
    SelectSeq([id \in 1..Len(issued) |-> id],
              LAMBDA id : issued[id].stream_id = sid)

\* es is what follows cursor in hist, or the beginning of it
FollowsCursor(es, cursor, hist) ==
    \E p \in 1..Len(hist) :
        /\ hist[p] = cursor
        /\ Len(es) <= Len(hist) - p
        /\ \A k \in 1..Len(es) : es[k] = hist[p + k]

\* C1: a replay during which nothing else ran and whose cursor was the k-th
\* record of its stream has passed to the callback exactly the records after
\* the k-th, once each and in the stream's order (none for the last record).
ReplayCompleteInOrder ==
    (/\ lastOp.op = "replay_events_after"
     /\ ~lastOp.interleaved
     /\ \E p \in 1..Len(lastOp.snapshot) :
            lastOp.snapshot[p].event_id = lastOp.last_event_id)
    => LET ids == Ids(lastOp.snapshot)
           k == CHOOSE p \in 1..Len(ids) : ids[p] = lastOp.last_event_id
       IN emitted = SubSeq(ids, k + 1, Len(ids))

ReplayedTwoInOrder ==
    /\ lastOp.op = "replay_events_after"
    /\ ~lastOp.interleaved
    /\ Len(emitted) >= 2
    /\ Len(lastOp.snapshot) = Len(emitted) + 1

\* C2: every live stream holds at most max_events_per_stream records.
CapacityInvariant ==
    \A sid \in DOMAIN streams : Len(streams[sid]) <= max_events_per_stream

StreamOverflowed ==
    \E sid \in DOMAIN streams :
        /\ Len(streams[sid]) = max_events_per_stream
        /\ stream_metadata[sid].event_count > max_events_per_stream

\* C3: the ids of the index are the ids of the records of the live streams,
\* and every index entry is a record of the live stream it names.
IndexConsistency ==
    /\ DOMAIN event_index =
         UNION { Range(Ids(streams[sid])) : sid \in DOMAIN streams }
    /\ \A eid \in DOMAIN event_index :
          /\ event_index[eid].event_id = eid
          /\ event_index[eid].stream_id \in DOMAIN streams
          /\ \E p \in 1..Len(streams[event_index[eid].stream_id]) :
                streams[event_index[eid].stream_id][p] = event_index[eid]

EvictedWhileOthersIndexed ==
    /\ DOMAIN event_index # {}
    /\ \E eid \in 1..Len(issued) : eid \notin DOMAIN event_index
    /\ \E sid \in DOMAIN streams :
          stream_metadata[sid].event_count > max_events_per_stream

\* C4 (as claimed): the number of live streams never exceeds max_streams.
GlobalStreamCap == Cardinality(DOMAIN streams) <= max_streams

\* C5: a store_event for a stream that is not live, on a store holding
\* exactly max_streams streams, removes exactly one stream, one of minimal
\* last_activity, with all its records unindexed; the other streams keep
\* their records, index entries and metadata; the new stream holds the one
\* new event.
StoredFor(sid) ==
    /\ Len(issued') = Len(issued) + 1
    /\ issued'[Len(issued')].stream_id = sid

LruEviction ==
    [][\A sid \in StreamIds :
         (/\ StoredFor(sid)
          /\ sid \notin DOMAIN streams
          /\ Cardinality(DOMAIN streams) = max_streams)
         => \E victim \in DOMAIN streams :
              /\ DOMAIN streams' = ((DOMAIN streams) \ {victim}) \cup {sid}
              /\ DOMAIN stream_metadata' = DOMAIN streams'
              /\ \A o \in DOMAIN streams :
                    stream_metadata[victim].last_activity
                      <= stream_metadata[o].last_activity
              /\ \A p \in 1..Len(streams[victim]) :
                    streams[victim][p].event_id \notin DOMAIN event_index'
              /\ \A o \in (DOMAIN streams) \ {victim} :
                    /\ streams'[o] = streams[o]
                    /\ stream_metadata'[o] = stream_metadata[o]
                    /\ \A p \in 1..Len(streams[o]) :
                          /\ streams[o][p].event_id \in DOMAIN event_index'
                          /\ event_index'[streams[o][p].event_id]
                               = streams[o][p]
              /\ Ids(streams'[sid]) = <<Len(issued')>>
              /\ Len(issued') \in DOMAIN event_index'
       ]_vars

LruEvicted ==
    /\ lastOp.op = "store_event"
    /\ lastOp.evicted # None
    /\ Cardinality(DOMAIN streams) = max_streams
    /\ lastOp.evicted[1] \notin DOMAIN streams
    /\ \E eid \in 1..Len(issued) : issued[eid].stream_id = lastOp.evicted[1]

\* C6 (as claimed): what a replay has passed to the callback is, at every
\* moment, a run of the records stored under the cursor's stream that starts
\* right after the cursor: no gap, no duplicate, in insertion order.
ReplayCursor ==
    IF replay.pc = "awaiting" THEN replay.last_event_id
                              ELSE lastOp.last_event_id

ReplayContiguousUnderInterleaving ==
    emitted # <<>>
    => FollowsCursor(emitted, ReplayCursor,
                     StreamHistory(issued[ReplayCursor].stream_id))

\* C7: the step that puts an event into a stream's sequence and into the
\* index is the step that increments the stream's event_count; no state in
\* between exists for a reader to observe, and no other call but a metadata
\* update changes the count or the sequence of a stream that stays live.
InsertionAtomic ==
    [][\A sid \in StreamIds :
         /\ StoredFor(sid)
            => /\ sid \in DOMAIN streams'
               /\ Len(issued') \in DOMAIN event_index'
               /\ Len(streams'[sid]) > 0
               /\ streams'[sid][Len(streams'[sid])].event_id = Len(issued')
               /\ stream_metadata'[sid].event_count =
                    (IF sid \in DOMAIN streams
                     THEN stream_metadata[sid].event_count ELSE 0) + 1
         /\ (/\ ~StoredFor(sid)
             /\ sid \in DOMAIN streams
             /\ sid \in DOMAIN streams'
             /\ lastOp'.op # "update_stream_metadata")
            => /\ streams'[sid] = streams[sid]
               /\ stream_metadata'[sid].event_count
                    = stream_metadata[sid].event_count
       ]_vars

StoredIntoLiveStream ==
    /\ lastOp.op = "store_event"
    /\ stream_metadata[lastOp.stream_id].event_count >= 2
    /\ lastOp.ret \in DOMAIN event_index

\* ids stored under the live stream sid since it was created, oldest first
\* (its event_count, where no caller overrides it, counts them)
Incarnation(sid) ==
    LastN(StreamHistory(sid), stream_metadata[sid].event_count)

Retained(sid) == LastN(Incarnation(sid), max_events_per_stream)

MessageOf(eid) ==
    [event_id |-> eid, stream_id |-> issued[eid].stream_id,
     message |-> issued[eid].message]

\* C8: once more than max_events_per_stream events were stored on a stream,
\* get_stream_events returns exactly the last max_events_per_stream of them
\* in insertion order, get_event returns not-found for every earlier one and
\* the stored payload for every retained one.
OldestFirstEviction ==
    /\ (/\ lastOp.op = "get_stream_events"
        /\ lastOp.limit = None
        /\ lastOp.stream_id \in DOMAIN streams
        /\ stream_metadata[lastOp.stream_id].event_count
             > max_events_per_stream)
       => lastOp.ret = [p \in 1..max_events_per_stream |->
                           MessageOf(Retained(lastOp.stream_id)[p])]
    /\ (/\ lastOp.op = "get_event"
        /\ lastOp.event_id <= Len(issued)
        /\ issued[lastOp.event_id].stream_id \in DOMAIN streams
        /\ stream_metadata[issued[lastOp.event_id].stream_id].event_count
             > max_events_per_stream
        /\ lastOp.event_id
             \in Range(Incarnation(issued[lastOp.event_id].stream_id)))
       => IF lastOp.event_id
               \in Range(Retained(issued[lastOp.event_id].stream_id))
          THEN lastOp.ret = Some(MessageOf(lastOp.event_id))
          ELSE lastOp.ret = None

EvictedEventNotFound ==
    /\ lastOp.op = "get_event"
    /\ lastOp.event_id <= Len(issued)
    /\ issued[lastOp.event_id].stream_id \in DOMAIN streams
    /\ stream_metadata[issued[lastOp.event_id].stream_id].event_count
         > max_events_per_stream
    /\ lastOp.event_id
         \in Range(Incarnation(issued[lastOp.event_id].stream_id))
    /\ lastOp.event_id
         \notin Range(Retained(issued[lastOp.event_id].stream_id))
    /\ lastOp.ret = None

\* C9: a replay_events_after called with a cursor that no live stream holds
\* (never issued, dropped at capacity, or of a removed or pruned stream)
\* returns at once: nothing passed to the callback, nothing raised, None
\* returned, streams, index and metadata as they were.
ReplayBegan(c) ==
    /\ lastOp = NoCall
    /\ replay.pc = "idle"
    /\ \/ replay'.pc = "awaiting" /\ replay'.last_event_id = c
       \/ lastOp'.op = "replay_events_after" /\ lastOp'.last_event_id = c

Unusable(c) ==
    c \notin UNION { Range(Ids(streams[sid])) : sid \in DOMAIN streams }

UnusableCursorReplay ==
    [][\A c \in 1..(MaxReplayEvents + 1) :
         (ReplayBegan(c) /\ Unusable(c))
         => /\ emitted' = <<>>
            /\ lastOp'.op = "replay_events_after"
            /\ ~lastOp'.raised
            /\ lastOp'.ret = None
            /\ UNCHANGED store
       ]_vars

ReplayedDroppedCursor ==
    /\ lastOp.op = "replay_events_after"
    /\ lastOp.last_event_id <= Len(issued)
    /\ Unusable(lastOp.last_event_id)
    /\ issued[lastOp.last_event_id].stream_id \in DOMAIN streams
    /\ stream_metadata[issued[lastOp.last_event_id].stream_id].event_count
         > max_events_per_stream
    /\ lastOp.ret = None
    /\ emitted = <<>>

\* C10 (as claimed): get_stream_events with a limit >= 0 returns the most
\* recent min(limit, len) records of the stream in insertion order, so at
\* most limit of them; without a limit it returns all; for a stream that is
\* not live it returns the empty list.
AllMessages(sid) ==
    IF sid \in DOMAIN streams
    THEN [p \in 1..Len(streams[sid]) |-> TornadoEventMessage(streams[sid][p])]
    ELSE <<>>

LimitBoundsResult ==
    lastOp.op = "get_stream_events"
    => IF lastOp.limit = None
       THEN lastOp.ret = AllMessages(lastOp.stream_id)
       ELSE /\ Len(lastOp.ret) <= lastOp.limit[1]
            /\ lastOp.ret = LastN(AllMessages(lastOp.stream_id),
                                  lastOp.limit[1])

\* C11: remove_stream on a live stream returns true and leaves the stream
\* without records for get_stream_events, each of its former event ids
\* not-found for get_event, and no metadata; on a stream that is not live it
\* returns false and changes nothing.
RemoveStreamContract ==
    [][\A sid \in StreamIds :
         (/\ lastOp = NoCall
          /\ lastOp'.op = "remove_stream"
          /\ lastOp'.stream_id = sid)
         => IF sid \in DOMAIN streams
            THEN /\ lastOp'.ret = TRUE
                 /\ GetStreamEventsResult(streams', sid, None) = <<>>
                 /\ \A p \in 1..Len(streams[sid]) :
                       GetEventResult(event_index', streams[sid][p].event_id)
                         = None
                 /\ sid \notin DOMAIN stream_metadata'
            ELSE /\ lastOp'.ret = FALSE
                 /\ UNCHANGED store
       ]_vars

RemovedStreamWithRecords ==
    /\ lastOp.op = "remove_stream"
    /\ lastOp.ret = TRUE
    /\ Len(issued) >= 2
    /\ issued[Len(issued)].stream_id = lastOp.stream_id
    /\ DOMAIN event_index # {}

\* C12: prune_old_streams(max_age) removes exactly the streams whose
\* last_activity lies more than max_age before the current time, together
\* with their index entries, returns how many it removed, and leaves the
\* records, metadata and index entries of every other stream as they were.
PruneContract ==
    [][\A max_age \in Times :
         (/\ lastOp = NoCall
          /\ lastOp'.op = "prune_old_streams"
          /\ lastOp'.max_age = max_age)
         => LET old == { sid \in DOMAIN streams :
                           now - stream_metadata[sid].last_activity > max_age }
            IN /\ DOMAIN streams' = (DOMAIN streams) \ old
               /\ DOMAIN stream_metadata' = DOMAIN streams'
               /\ lastOp'.ret = Cardinality(old)
               /\ \A sid \in old : \A p \in 1..Len(streams[sid]) :
                     streams[sid][p].event_id \notin DOMAIN event_index'
               /\ \A sid \in (DOMAIN streams) \ old :
                     /\ streams'[sid] = streams[sid]
                     /\ stream_metadata'[sid] = stream_metadata[sid]
                     /\ \A p \in 1..Len(streams[sid]) :
                           /\ streams[sid][p].event_id \in DOMAIN event_index'
                           /\ event_index'[streams[sid][p].event_id]
                                = streams[sid][p]
       ]_vars

PrunedOldKeptRecent ==
    /\ lastOp.op = "prune_old_streams"
    /\ lastOp.ret >= 1
    /\ \E sid \in DOMAIN streams :
          /\ Len(streams[sid]) > 0
          /\ now - stream_metadata[sid].last_activity = lastOp.max_age

ReplayReturnsLastSent ==
    (lastOp.op = "replay_events_after" /\ ~lastOp.raised)
    => lastOp.ret = IF emitted = <<>> THEN None
                                      ELSE Some(emitted[Len(emitted)])

\* the session sid is registered with status ended
Ended(ss, sid) ==
    /\ sid \in DOMAIN ss
    /\ "status" \in DOMAIN ss[sid]
    /\ ss[sid].status = "ended"

\* C15 (as claimed): once a session is ended it stays ended and has no SSE
\* handler attached, whatever request or start_session call presents its id;
\* a GET or POST that presents it runs under another session id.
EndedIsAbsorbing ==
    [][\A sid \in DOMAIN sessions :
         Ended(sessions, sid)
         => /\ Ended(sessions', sid)
            /\ sid \notin DOMAIN sse_handlers'
            /\ lastOp'.op \in {"GET", "POST"} => lastOp'.session_id # sid
       ]_vars

\* C16 (as claimed): end_session on a session that is already ended leaves
\* its record (status ended, the same ended_at) as it was and no handler
\* attached; end_session on an unknown id changes nothing.
EndSessionIdempotent ==
    [][\A sid \in ClientSessionIds \cup Range(Uuids) :
         (/\ lastOp = NoCall
          /\ lastOp'.op = "end_session"
          /\ lastOp'.session_id = sid)
         => /\ Ended(sessions', sid) \/ sid \notin DOMAIN sessions
            /\ sid \notin DOMAIN sse_handlers'
                 \/ sid \notin DOMAIN sessions
            /\ Ended(sessions, sid) => sessions'[sid] = sessions[sid]
            /\ sid \notin DOMAIN sessions
                 => UNCHANGED <<sessions, sse_handlers, handlers>>
       ]_vars

\* C17 (as claimed): the session id a GET or POST has run under is in the
\* registry with status active (a record without a status reads as active).
ResolvedSessionRegistered ==
    lastOp.op \in {"GET", "POST"}
    => /\ lastOp.session_id \in DOMAIN sessions
       /\ StatusOf(sessions[lastOp.session_id]) = "active"

\* handlers created for sid that are open: not closed, heartbeat running
OpenChannels(sid) ==
    { h \in DOMAIN handlers :
        /\ handlers[h].session_id = sid
        /\ ~handlers[h].closed
        /\ handlers[h].heartbeat_callback }

\* C18 (as claimed): no session id has two open SSE channels.
AtMostOneOpenChannel ==
    \A sid \in ClientSessionIds \cup Range(Uuids) :
        Cardinality(OpenChannels(sid)) <= 1

\* the session id a step has just ended: end_session(sid) returned, or a
\* DELETE naming sid was answered "Session ended"
JustEnded(sid) ==
    /\ lastOp = NoCall
    /\ \/ lastOp'.op = "end_session" /\ lastOp'.session_id = sid
       \/ /\ lastOp'.op = "DELETE"
          /\ lastOp'.body = "Session ended"
          /\ lastOp'.header = Some(sid)

\* C19 (as claimed): once end_session(sid) has returned, also through a
\* DELETE answered "Session ended", no handler is attached to sid and the
\* handler that was attached is closed with its heartbeat timer stopped.
TerminationClosesChannel ==
    [][\A sid \in ClientSessionIds \cup Range(Uuids) :
         JustEnded(sid)
         => /\ sid \notin DOMAIN sse_handlers'
            /\ sid \in DOMAIN sse_handlers
                 => /\ handlers'[sse_handlers[sid]].closed
                    /\ ~handlers'[sse_handlers[sid]].heartbeat_callback
       ]_vars

\* C20: nothing is written to the connection of a closed handler: no step
\* (send_event from a POST, a replay or a broadcast, send_heartbeat from a
\* timer or from start_heartbeat_loop) adds a frame to it.
NoWriteAfterClose ==
    [][\A h \in DOMAIN handlers :
         handlers[h].closed
         => /\ handlers'[h].written = handlers[h].written
            /\ handlers'[h].closed
       ]_vars

SentToClosedChannel ==
    /\ lastOp.op = "broadcast_event"
    /\ lastOp.data = JsonData
    /\ \E h \in Registered :
          /\ handlers[h].closed
          /\ ~handlers[h].finished
          /\ handlers[h].written # <<>>

\* C21 (as claimed): a DELETE whose header names a session that is not in
\* the registry (or that carries no session header) is answered 404 and
\* leaves the registry, the handler map and the handlers as they were; a
\* DELETE answered "Session ended" names a session of the registry.
DeleteUnknownNotFound ==
    [][(lastOp = NoCall /\ lastOp'.op = "DELETE")
       => IF lastOp'.header # None /\ lastOp'.header[1] \in DOMAIN sessions
          THEN lastOp'.body = "Session ended"
          ELSE /\ lastOp'.status = 404
               /\ UNCHANGED <<sessions, sse_handlers, handlers>>
      ]_vars

\* ids of the frames of w that replay_events_after's callback wrote
ReplayedIds(w) ==
    LET msgs == SelectSeq(w, LAMBDA f : f.event = Some("message"))
    IN [p \in 1..Len(msgs) |-> msgs[p].id[1]]

\* C22 (as claimed): on every channel the replayed events come before every
\* other event frame (session_info, a POST result, a broadcast); the channel a
\* GET has just set up holds the events after its cursor, all of them and in
\* their original order, and ends with a session_info frame naming the
\* session the GET ran under.
GetOrdering ==
    /\ \A h \in DOMAIN handlers :
         LET w == handlers[h].written
         IN \A i, j \in 1..Len(w) :
              (i < j /\ w[j].event = Some("message"))
              => w[i].event \in {None, Some("message")}
    /\ lastOp.op = "GET"
       => LET w == handlers[lastOp.handler].written
          IN /\ lastOp.last_event_id # None
                  => ReplayedIds(w)
                       = Ids(ReplayedEntries(event_index, streams,
                                             lastOp.last_event_id[1]))
             /\ w # <<>>
             /\ w[Len(w)].event = Some("session_info")
             /\ w[Len(w)].data[1].session_id = lastOp.session_id

\* C24 (as claimed): every frame written to a channel that carries an event
\* line (a replayed event, session_info, a POST result, an error, a
\* broadcast) carries an id line holding the id of a stored event; a frame
\* without an event line is a heartbeat and carries no id line.
EventFramesCarryId ==
    \A h \in DOMAIN handlers :
        \A i \in 1..Len(handlers[h].written) :
            LET f == handlers[h].written[i]
            IN IF f.event # None
               THEN f.id # None /\ f.id[1] \in 1..Len(issued)
               ELSE f = HeartbeatFrame

\* the channel of the stream the event e was stored under is open
ChannelOpenFor(e) ==
    /\ e \in DOMAIN issued
    /\ issued[e].stream_id \in DOMAIN sse_handlers
    /\ ~handlers[sse_handlers[issued[e].stream_id]].closed
    /\ ~handlers[sse_handlers[issued[e].stream_id]].finished

\* the event e has just been stored, by store_event or by a POST
JustStored(e) ==
    /\ Len(issued) = e
    /\ lastOp.op \in {"store_event", "POST"}

\* a frame carrying the event e was written to the channel of its stream
Forwarded(e) ==
    /\ ChannelOpenFor(e)
    /\ LET w == handlers[sse_handlers[issued[e].stream_id]].written
       IN \E i \in 1..Len(w) : w[i].id = Some(e)

\* C23 (as claimed): an event stored under the stream id of a session whose
\* channel is open is eventually written to that channel, unless the channel
\* stops being open first.
LiveForwarding ==
    \A e \in 1..MaxResumeEvents :
        (JustStored(e) /\ ChannelOpenFor(e))
        ~> (~ChannelOpenFor(e) \/ Forwarded(e))

\* a step in which _handle_post finishes a request
PostFinishes == lastOp = NoCall /\ lastOp'.op = "POST"

\* a step in which a tools/call POST ends in the except clause of
\* _handle_post
ToolCallFails ==
    /\ PostFinishes
    /\ "failure" \in DOMAIN lastOp'
    /\ lastOp'.failure # None

\* what a finished POST handed to its caller: the HTTP body, and the data of
\* the frames added to the channel it was routed to
Delivered(op, before, after) ==
    (IF op.body = None THEN {} ELSE {op.body[1]})
    \cup (IF op.handler = None
          THEN {}
          ELSE { after[op.handler[1]].written[i].data[1] :
                   i \in (Len(before[op.handler[1]].written) + 1)
                          ..Len(after[op.handler[1]].written) })

\* C25 (as claimed): every POST that _handle_post finishes, with a success
\* envelope or with an error envelope, has appended a record to the stream
\* named by the session id of the request.
PostAppendsRecord ==
    [][PostFinishes
       => /\ Len(issued') = Len(issued) + 1
          /\ issued'[Len(issued')].stream_id = lastOp'.session_id
          /\ lastOp'.session_id \in DOMAIN streams'
          /\ Len(issued') \in Range(Ids(streams'[lastOp'.session_id]))
      ]_vars

\* x is an RPC error envelope correlated to request_id
IsErrorEnvelope(x, request_id) ==
    /\ x.kind = "error"
    /\ x.id = request_id
    /\ x.code \in Int
    /\ x.message \in STRING

\* C26 (as claimed): a tools/call POST carrying an id whose dispatch raises
\* ends with an RPC error envelope carrying that id, a numeric code and a
\* message, in the HTTP body or as an error event on the channel of the
\* session; the request is answered by _handle_post (no exception reaches
\* the except clause of handle_request) and finished once.
RaisedEndsWithErrorEnvelope ==
    [][(ToolCallFails /\ lastOp'.request.id # None)
       => /\ \E x \in Delivered(lastOp', handlers, handlers') :
                IsErrorEnvelope(x, lastOp'.request.id)
          /\ lastOp'.status = 200
          /\ lastOp'.finish_calls = 1
      ]_vars

\* C27: a tools/call POST without an id whose dispatch raises is answered
\* with an empty acknowledgement (no body, or the body {}) and writes
\* nothing to any channel.
NotificationSilence ==
    [][(ToolCallFails /\ lastOp'.request.id = None)
       => /\ lastOp'.body \in {None, Some([kind |-> "empty"])}
          /\ handlers' = handlers
          /\ lastOp'.status = 200
          /\ lastOp'.finish_calls = 1
      ]_vars

\* a notification whose tool raised while the channel of its session was
\* open
NotificationFailedOnOpenChannel ==
    /\ lastOp.op = "POST"
    /\ "failure" \in DOMAIN lastOp
    /\ lastOp.failure = Some([at |-> "tool", error |-> MissingArgument])
    /\ lastOp.request.id = None
    /\ lastOp.session_id \in DOMAIN sse_handlers
    /\ ~handlers[sse_handlers[lastOp.session_id]].closed
    /\ ~handlers[sse_handlers[lastOp.session_id]].finished

\* C28 (as claimed): a tools/call POST carrying an id that fails because the
\* tool name or a required argument is missing is answered with an error
\* envelope whose code is INVALID_PARAMS.
MissingArgumentIsInvalidParams ==
    [][(/\ ToolCallFails
        /\ lastOp'.request.id # None
        /\ \/ lastOp'.failure[1].at = "name"
           \/ lastOp'.failure[1].error = MissingArgument)
       => \E x \in Delivered(lastOp', handlers, handlers') :
             /\ IsErrorEnvelope(x, lastOp'.request.id)
             /\ x.code = INVALID_PARAMS
      ]_vars

\* C29 (as claimed): a POST whose body is not well-formed JSON is answered
\* with a 4xx status and leaves the registry, the handlers, the suspended
\* tool calls and the event log as they were.
UnparsedBodyRejected ==
    [][(/\ lastOp = NoCall
        /\ lastOp'.op = "POST unparsed"
        /\ JsonLoadsRaises(lastOp'.body) # None)
       => /\ lastOp'.status \in 400..499
          /\ UNCHANGED <<manager, store, issued>>
      ]_vars

\* the order read < write < execute < admin
PermissionRank(p) ==
    IF p = "read" THEN 1
    ELSE IF p = "write" THEN 2
    ELSE IF p = "execute" THEN 3
    ELSE 4

\* C30 (as claimed): check_document_access grants a user who is not admin
\* and has a permission list for the document a requested permission only
\* if the list holds that permission or a higher one.
AccessNeedsListedPermission ==
    (/\ lastOp.op = "check_document_access"
     /\ ~lastOp.user_claims.admin
     /\ lastOp.document_path
          \in DOMAIN lastOp.user_claims.document_permissions
     /\ lastOp.ret)
    => /\ lastOp.permission \in Permissions
       /\ \E p \in lastOp.user_claims
                    .document_permissions[lastOp.document_path] :
             PermissionRank(p) >= PermissionRank(lastOp.permission)

\* C31 (as claimed): check_session_access grants a user who is not admin and
\* has a permission list for the session the requested permission (join,
\* leave or manage) exactly when the list holds it.
SessionAccessIffListed ==
    (/\ lastOp.op = "check_session_access"
     /\ ~lastOp.user_claims.admin
     /\ lastOp.session_id \in DOMAIN lastOp.user_claims.session_permissions)
    => (lastOp.ret
          <=> lastOp.permission
                \in lastOp.user_claims.session_permissions[lastOp.session_id])

\* the calls of client_id accepted at a time t with from <= t < from + window
AcceptedIn(client_id, from) ==
    { k \in 1..Len(accepted) :
          /\ accepted[k].client_id = client_id
          /\ accepted[k].at >= from
          /\ accepted[k].at < from + RateLimitWindow }

\* at most rate_limit_requests accepted calls of a client in any window
WithinLimit ==
    \A client_id \in ClientIds, from \in 0..MaxClock :
        Cardinality(AcceptedIn(client_id, from)) <= RateLimitRequests

\* C32: within any interval of rate_limit_window seconds at most
\* rate_limit_requests calls of check_rate_limit by one client return true;
\* a call made once that many calls of the client were accepted inside the
\* window returns false, is not recorded, and leaves the lists of the other
\* clients as they are.
RateLimitHolds ==
    /\ []WithinLimit
    /\ [][ \A client_id \in ClientIds :
          (/\ lastOp = NoCall
           /\ lastOp'.op = "check_rate_limit"
           /\ lastOp'.client_id = client_id
           /\ Cardinality(AcceptedIn(client_id,
                                     utcnow - RateLimitWindow + 1))
                >= RateLimitRequests)
          => /\ ~lastOp'.ret
             /\ accepted' = accepted
             /\ client_id \in DOMAIN rate_limits
             /\ Len(rate_limits'[client_id]) <= Len(rate_limits[client_id])
             /\ \A other \in (DOMAIN rate_limits) \ {client_id} :
                    /\ other \in DOMAIN rate_limits'
                    /\ rate_limits'[other] = rate_limits[other]
      ]_vars

\* a client that was accepted more often than the limit allows at once, its
\* earlier calls having left the window, is refused while the other client
\* still has calls left
RateLimitWitness ==
    /\ lastOp.op = "check_rate_limit"
    /\ ~lastOp.ret
    /\ Cardinality({ k \in 1..Len(accepted) :
                       accepted[k].client_id = lastOp.client_id })
           > RateLimitRequests
    /\ \E other \in ClientIds \ {lastOp.client_id} :
           /\ other \in DOMAIN rate_limits
           /\ Len(rate_limits[other]) = 1

\* the arguments the handler of a tool requires
RequiredArguments(tool) ==
    { HandlerChecks[tool][i].arg : i \in 1..Len(HandlerChecks[tool]) }

\* C33: a tool handler called without one of its required arguments, or with
\* a name that is not its tool, raises and makes no call to the adapter.
RejectedBeforeAdapter ==
    [][ (/\ lastOp = NoCall
         /\ lastOp'.op = "call_tool"
         /\ \/ lastOp'.name # lastOp'.handler
            \/ RequiredArguments(lastOp'.handler)
                   \ DOMAIN lastOp'.arguments # {})
        => /\ lastOp'.raised # None
           /\ adapter_calls' = adapter_calls
      ]_vars

\* after a call was forwarded, a call without one required argument was
\* rejected and the adapter was not called for it
RejectedCallWitness ==
    /\ lastOp.op = "call_tool"
    /\ lastOp.name = lastOp.handler
    /\ lastOp.handler = "delete_text"
    /\ DOMAIN lastOp.arguments = {"path", "position"}
    /\ \A a \in DOMAIN lastOp.arguments : lastOp.arguments[a] = "x"
    /\ lastOp.raised # None
    /\ adapter_calls = 1

\* C34 (as claimed): the events replayed on a GET are events of the stream
\* whose id is the session the GET ran under, also when the cursor is the id
\* of an event of another session's stream.
ReplayIsolation ==
    lastOp.op = "GET"
    => LET w == handlers[lastOp.handler].written
       IN \A i \in 1..Len(w) :
            w[i].event = Some("message")
            => issued[w[i].id[1]].stream_id = lastOp.session_id

\* C35 (as claimed): every tools/call POST carrying an id that _handle_post
\* finishes has handed its response envelope, a result or an error carrying
\* that id, to the client: in the HTTP body, or in a frame written to the
\* channel of the session.
NoDroppedResponse ==
    [][(/\ PostFinishes
        /\ "request" \in DOMAIN lastOp'
        /\ lastOp'.request.id # None)
       => \E x \in Delivered(lastOp', handlers, handlers') :
              /\ x.kind \in {"result", "error"}
              /\ x.id = lastOp'.request.id
      ]_vars

\* C36 (as claimed): stream_events does not raise; with a cursor that is an
\* event of the stream it yields the events that follow the cursor in the
\* stream, in insertion order, and no other; with no cursor it yields every
\* event of the stream in insertion order.
StreamEventsAfterCursor ==
    (/\ lastOp.op = "stream_events"
     /\ lastOp.stream_id \in DOMAIN streams)
    => LET ids == Ids(streams[lastOp.stream_id])
           cursor == lastOp.after_event_id
           yielded == [p \in 1..Len(lastOp.ret.yielded) |->
                          lastOp.ret.yielded[p].event_id]
       IN /\ lastOp.ret.raised = None
          /\ cursor = None => yielded = ids
          /\ (cursor # None /\ cursor[1] \in Range(ids))
             => \E k \in 1..Len(ids) :
                    /\ ids[k] = cursor[1]
                    /\ yielded = SubSeq(ids, k + 1, Len(ids))

\* C37 (as claimed): the event_count of every live stream is the number of
\* store_event calls made on the stream since it was created (no stream is
\* removed here, so since the beginning), and is not less than the number
\* of records the stream holds.
EventCountCountsStores ==
    \A sid \in DOMAIN streams :
        /\ stream_metadata[sid].event_count = Len(StreamHistory(sid))
        /\ stream_metadata[sid].event_count >= Len(streams[sid])

MergeStep == lastOp = NoCall /\ lastOp'.op = "merge_document_fork"

====
